---- MODULE Spec2Model ----
(***************************************************************************)
(* State-machine model of the heistDuel contracts (Soroban, Rust):         *)
(*   apps/contracts/heist/src/lib.rs      session lifecycle and turns      *)
(*   apps/contracts/heist/src/engine.rs   deterministic game engine        *)
(*                                                                         *)
(* Modelling conventions                                                   *)
(*  - Option<T> is a sequence: <<>> is None, <<v>> is Some(v).             *)
(*  - A BytesN<18> bitset is the set of its set bit indices (0..143);      *)
(*    to_arr18/from_arr18 copy the 18 bytes and keep that set.             *)
(*  - keccak256 is collision resistant: a digest that is only compared is  *)
(*    the tuple of the hashed fields, in the order the code appends them.  *)
(*    Where the code reads digest bytes as a number (seeded_u32,           *)
(*    roll_value) a fixed deterministic stand-in function is used.         *)
(*  - Every contract entry point runs in a Soroban host frame: when it     *)
(*    returns Err(..) or panics (a failed cross-contract call made with    *)
(*    the non-try client panics the caller), the host discards every       *)
(*    storage write of the frame, the callee contracts' writes included.   *)
(*  - Authorisation (require_auth) is granted, as with mock_all_auths.     *)
(*  - Storage eviction (TTL) is not modelled.                              *)
(***************************************************************************)
EXTENDS Integers, Sequences, FiniteSets, TLC

\* ------------------------------------------------------------ constants
MAP_W == 12
MAP_H == 12
CELL_COUNT == MAP_W * MAP_H
GAME_SECONDS == 300
CAMERA_PENALTY == 1
LASER_PENALTY == 2

\* ------------------------------------------------------------ bounds
\* accepted turns per session
MaxTurns == 2
\* steps of the candidate paths a caller submits
MaxSteps == 2

\* ------------------------------------------------------------ input sets
SessionIdsAll == {1, 2}
SessionIds == {1}
Addresses == {"A", "B", "C"}
Secrets == {1, 2}
Points == {50}
TimeSteps == {GAME_SECONDS \div 2}
Horizon == GAME_SECONDS + (GAME_SECONDS \div 2)

None == <<>>
Some(v) == <<v>>
is_some(o) == o # <<>>
unwrap(o) == o[1]
unwrap_or(o, d) == IF o = <<>> THEN d ELSE o[1]

Pos(x, y) == [x |-> x, y |-> y]

\* ------------------------------------------------------------ engine.rs
commit_hash(seed_secret) == <<"commit", seed_secret>>

derive_session_seed(session_id, s1, s2) == <<session_id, s1, s2>>

\* Stand-in for the first four bytes of keccak256(seed || tag || i): a fixed
\* deterministic function of the same three inputs.  Seeds whose second
\* secret is 1 repeat one draw per tag (sparse maps, the draw budget runs
\* out); the others walk the board with a stride coprime to the cell count.
TagBase(seed, tag) ==
    CASE tag = 1 -> 16 + 3 * (seed[2] - 1)
      [] tag = 2 -> 15
      [] tag = 3 -> 27 + 60 * (seed[2] - 1)
      [] tag = 4 -> 34 + 68 * (seed[2] - 1) + 17 * (seed[1] - 1)
      [] OTHER -> 0

Stride(seed) == IF seed[3] = 1 THEN CELL_COUNT * 17 ELSE 5 + CELL_COUNT * 17

\* (the values stay far below 2^32, so the u32 conversion keeps them)
seeded_u32(seed, tag, i) == TagBase(seed, tag) + Stride(seed) * i

\* Stand-in for prng(keccak256(seed || turn_index || tag)).gen_range(1..=6).
roll_value(session_seed, turn_index, player_tag) ==
    1 + ((session_seed[2] + 2 * session_seed[3] + 3 * turn_index + player_tag) % 6)

idx(x, y) == y * MAP_W + x

bit_is_set(bits, bit_index) == bit_index \in bits

bit_set(bits, bit_index) == bits \cup {bit_index}

zero_bitset == {}

has_any_set_bit(bits) == bits # {}

is_walkable(walls, x, y) ==
    IF x < 0 \/ y < 0 \/ x >= MAP_W \/ y >= MAP_H
    THEN FALSE
    ELSE ~bit_is_set(walls, idx(x, y))

RECURSIVE has_any_path(_, _, _, _)
has_any_path(walls, x, y, steps) ==
    IF steps = 0 THEN TRUE
    ELSE IF ~is_walkable(walls, x, y) THEN FALSE
    ELSE \/ has_any_path(walls, x + 1, y, steps - 1)
         \/ has_any_path(walls, x - 1, y, steps - 1)
         \/ has_any_path(walls, x, y + 1, steps - 1)
         \/ has_any_path(walls, x, y - 1, steps - 1)

exists_any_path_len(walls, start, steps) == has_any_path(walls, start.x, start.y, steps)

\* Faulty variant of reveal_fog_4x4: the mask becomes the window around
\* (cx, cy) alone.
reveal_fog_4x4_window_only(fog, cx, cy) ==
    {idx(x, y) : x \in (IF cx >= 2 THEN cx - 2 ELSE 0)..(IF cx + 2 < MAP_W THEN cx + 2 ELSE MAP_W - 1),
                 y \in (IF cy >= 2 THEN cy - 2 ELSE 0)..(IF cy + 2 < MAP_H THEN cy + 2 ELSE MAP_H - 1)}

reveal_fog_4x4(fog, cx, cy) ==
    LET start_x == IF cx >= 2 THEN cx - 2 ELSE 0
        start_y == IF cy >= 2 THEN cy - 2 ELSE 0
        end_x == IF cx + 2 < MAP_W THEN cx + 2 ELSE MAP_W - 1
        end_y == IF cy + 2 < MAP_H THEN cy + 2 ELSE MAP_H - 1
    IN fog \cup {idx(x, y) : x \in start_x..end_x, y \in start_y..end_y}

is_full_collection(loot, collected) == \A i \in loot : i \in collected

\* Faulty variant of compute_state_hash: player2's fog mask is left out.
compute_state_hash_without_fog_p2(session_id, game) ==
    << session_id, game.turn_index,
       game.player1_pos.x, game.player1_pos.y,
       game.player2_pos.x, game.player2_pos.y,
       game.player1_score, game.player2_score,
       game.walls, game.loot, game.loot_collected, game.fog_p1 >>
    \o (IF is_some(game.session_seed) THEN <<unwrap(game.session_seed)>> ELSE <<>>)
    \o (IF is_some(game.deadline_ts) THEN <<unwrap(game.deadline_ts)>> ELSE <<>>)

\* keccak256 over the fields in the order they are appended; the seed and
\* the deadline are appended only when present.
compute_state_hash(session_id, game) ==
    << session_id, game.turn_index,
       game.player1_pos.x, game.player1_pos.y,
       game.player2_pos.x, game.player2_pos.y,
       game.player1_score, game.player2_score,
       game.walls, game.loot, game.loot_collected, game.fog_p1, game.fog_p2 >>
    \o (IF is_some(game.session_seed) THEN <<unwrap(game.session_seed)>> ELSE <<>>)
    \o (IF is_some(game.deadline_ts) THEN <<unwrap(game.deadline_ts)>> ELSE <<>>)

abs_diff(a, b) == IF a > b THEN a - b ELSE b - a

near_spawn(x, y) ==
    LET p1x == 1
        p1y == 1
        p2x == MAP_W - 2
        p2y == MAP_H - 2
    IN \/ (abs_diff(x, p1x) <= 1 /\ abs_diff(y, p1y) <= 1)
       \/ (abs_diff(x, p2x) <= 1 /\ abs_diff(y, p2y) <= 1)

\* One iteration of the wall loop; st = [i, placed, bits].
wall_step(seed, st) ==
    LET r == seeded_u32(seed, 1, st.i)
        x == r % MAP_W
        y == (r \div MAP_W) % MAP_H
        bit == idx(x, y)
    IN IF ~near_spawn(x, y) /\ ~bit_is_set(st.bits, bit)
       THEN [i |-> st.i + 1, placed |-> st.placed + 1, bits |-> bit_set(st.bits, bit)]
       ELSE [i |-> st.i + 1, placed |-> st.placed, bits |-> st.bits]

\* while i < 500 && placed_walls < 18, run in stretches of 40 iterations
\* (the stretches only keep the evaluation shallow).
RECURSIVE wall_run(_, _, _)
wall_run(seed, st, stop) ==
    IF st.i < stop /\ st.i < 500 /\ st.placed < 18
    THEN wall_run(seed, wall_step(seed, st), stop)
    ELSE st

RECURSIVE place_walls(_, _)
place_walls(seed, st) ==
    IF st.i < 500 /\ st.placed < 18
    THEN place_walls(seed, wall_run(seed, st, st.i + 40))
    ELSE st.bits

\* Faulty variant of loot_step: a wall cell is not refused.
loot_step_on_walls(seed, walls, st) ==
    LET r == seeded_u32(seed, 2, st.i)
        x == r % MAP_W
        y == (r \div MAP_W) % MAP_H
        bit == idx(x, y)
    IN IF ~near_spawn(x, y) /\ ~bit_is_set(st.bits, bit)
       THEN [i |-> st.i + 1, placed |-> st.placed + 1, bits |-> bit_set(st.bits, bit)]
       ELSE [i |-> st.i + 1, placed |-> st.placed, bits |-> st.bits]

\* One iteration of the loot loop.
loot_step(seed, walls, st) ==
    LET r == seeded_u32(seed, 2, st.i)
        x == r % MAP_W
        y == (r \div MAP_W) % MAP_H
        bit == idx(x, y)
    IN IF ~near_spawn(x, y) /\ ~bit_is_set(walls, bit) /\ ~bit_is_set(st.bits, bit)
       THEN [i |-> st.i + 1, placed |-> st.placed + 1, bits |-> bit_set(st.bits, bit)]
       ELSE [i |-> st.i + 1, placed |-> st.placed, bits |-> st.bits]

RECURSIVE loot_run(_, _, _, _)
loot_run(seed, walls, st, stop) ==
    IF st.i < stop /\ st.i < 1000 /\ st.placed < 24
    THEN loot_run(seed, walls, loot_step(seed, walls, st), stop)
    ELSE st

RECURSIVE place_loot(_, _, _)
place_loot(seed, walls, st) ==
    IF st.i < 1000 /\ st.placed < 24
    THEN place_loot(seed, walls, loot_run(seed, walls, st, st.i + 40))
    ELSE st.bits

RECURSIVE place_cameras(_, _, _)
place_cameras(seed, c, cameras) ==
    IF ~(c < 3) THEN cameras
    ELSE LET r == seeded_u32(seed, 3, c)
             x == r % MAP_W
             y == (r \div MAP_W) % MAP_H
         IN IF ~near_spawn(x, y)
            THEN place_cameras(seed, c + 1, Append(cameras, [x |-> x, y |-> y, radius |-> 2]))
            ELSE place_cameras(seed, c + 1, cameras)

RECURSIVE place_lasers(_, _, _)
place_lasers(seed, l, lasers) ==
    IF ~(l < 2) THEN lasers
    ELSE LET r == seeded_u32(seed, 4, l) IN
         IF r % 2 = 0
         THEN LET y == (r \div 17) % MAP_H IN
              IF y > 1 /\ y < MAP_H - 2
              THEN place_lasers(seed, l + 1,
                       Append(lasers, [x1 |-> 1, y1 |-> y, x2 |-> MAP_W - 2, y2 |-> y]))
              ELSE place_lasers(seed, l + 1, lasers)
         ELSE LET x == (r \div 17) % MAP_W IN
              IF x > 1 /\ x < MAP_W - 2
              THEN place_lasers(seed, l + 1,
                       Append(lasers, [x1 |-> x, y1 |-> 1, x2 |-> x, y2 |-> MAP_H - 2]))
              ELSE place_lasers(seed, l + 1, lasers)

generate_map(seed) ==
    LET walls == place_walls(seed, [i |-> 0, placed |-> 0, bits |-> {}])
        loot == place_loot(seed, walls, [i |-> 0, placed |-> 0, bits |-> {}])
    IN [walls |-> walls, loot |-> loot,
        cameras |-> place_cameras(seed, 0, <<>>),
        lasers |-> place_lasers(seed, 0, <<>>)]

\* ------------------------------------------------------------ lib.rs helpers
\* Faulty variant of validate_path: no upper limit on the length.
validate_path_any_length(walls, path, rolled) ==
    IF Len(path) < 2 THEN FALSE
    ELSE \A i \in 1..Len(path) :
            LET p == path[i] IN
            /\ ~(p.x >= MAP_W \/ p.y >= MAP_H)
            /\ ~bit_is_set(walls, p.y * MAP_W + p.x)
            /\ (i > 1 =>
                   LET prev == path[i - 1]
                       dx == IF p.x > prev.x THEN p.x - prev.x ELSE prev.x - p.x
                       dy == IF p.y > prev.y THEN p.y - prev.y ELSE prev.y - p.y
                   IN dx + dy = 1)

\* Faulty variant of validate_path: the cells are not looked up in the walls.
validate_path_through_walls(walls, path, rolled) ==
    IF Len(path) < 2 \/ Len(path) > rolled + 1 THEN FALSE
    ELSE \A i \in 1..Len(path) :
            LET p == path[i] IN
            /\ ~(p.x >= MAP_W \/ p.y >= MAP_H)
            /\ (i > 1 =>
                   LET prev == path[i - 1]
                       dx == IF p.x > prev.x THEN p.x - prev.x ELSE prev.x - p.x
                       dy == IF p.y > prev.y THEN p.y - prev.y ELSE prev.y - p.y
                   IN dx + dy = 1)

\* Lines 919-945.
validate_path(walls, path, rolled) ==
    IF Len(path) < 2 \/ Len(path) > rolled + 1 THEN FALSE
    ELSE \A i \in 1..Len(path) :
            LET p == path[i] IN
            /\ ~(p.x >= MAP_W \/ p.y >= MAP_H)
            /\ ~bit_is_set(walls, p.y * MAP_W + p.x)
            /\ (i > 1 =>
                   LET prev == path[i - 1]
                       dx == IF p.x > prev.x THEN p.x - prev.x ELSE prev.x - p.x
                       dy == IF p.y > prev.y THEN p.y - prev.y ELSE prev.y - p.y
                   IN dx + dy = 1)

collect_loot_delta_from_path(loot, loot_collected, path) ==
    { path[i].y * MAP_W + path[i].x : i \in
        { k \in 1..Len(path) :
            LET bit == path[k].y * MAP_W + path[k].x
            IN bit_is_set(loot, bit) /\ ~bit_is_set(loot_collected, bit) } }

path_hits_camera(path, camera) ==
    \E i \in 1..Len(path) :
        LET p == path[i]
            dx == IF p.x > camera.x THEN p.x - camera.x ELSE camera.x - p.x
            dy == IF p.y > camera.y THEN p.y - camera.y ELSE camera.y - p.y
        IN dx + dy <= camera.radius

path_hits_laser(path, laser) ==
    \E i \in 1..Len(path) :
        LET p == path[i] IN
        IF laser.x1 = laser.x2
        THEN p.x = laser.x1 /\ p.y >= laser.y1 /\ p.y <= laser.y2
        ELSE laser.y1 = laser.y2 /\ p.y = laser.y1 /\ p.x >= laser.x1 /\ p.x <= laser.x2

\* Faulty variant of compute_hazard_hits: a hazard counts once per path cell
\* that meets it.
compute_hazard_hits_per_cell(path, cameras, lasers) ==
    [camera_hits |-> Cardinality({<<ci, i>> \in (1..Len(cameras)) \X (1..Len(path)) :
                                     path_hits_camera(<<path[i]>>, cameras[ci])}),
     laser_hits |-> Cardinality({<<li, i>> \in (1..Len(lasers)) \X (1..Len(path)) :
                                    path_hits_laser(<<path[i]>>, lasers[li])})]

compute_hazard_hits(path, cameras, lasers) ==
    [camera_hits |-> Cardinality({ci \in 1..Len(cameras) : path_hits_camera(path, cameras[ci])}),
     laser_hits |-> Cardinality({li \in 1..Len(lasers) : path_hits_laser(path, lasers[li])})]

\* keccak256 over the turn's fields in the order they are appended.
compute_turn_public_hash(turn) ==
    << turn.session_id, turn.turn_index, turn.player,
       turn.start_pos.x, turn.start_pos.y, turn.end_pos.x, turn.end_pos.y,
       turn.rolled_value, turn.score_delta, turn.camera_hits, turn.laser_hits,
       turn.loot_collected_mask_delta, turn.no_path_flag,
       turn.state_hash_before, turn.state_hash_after,
       [i \in 1..Len(turn.path) |-> <<turn.path[i].x, turn.path[i].y>>] >>

\* ------------------------------------------------------------ collaborators
\* Hub (GameHub trait; the test's MockHubContract records end_game).
HubInit == [s \in SessionIdsAll |-> [start_calls |-> 0, end_calls |-> 0, player1_won |-> None]]

hub_start_game(hubv, session_id) ==
    [hubv EXCEPT ![session_id].start_calls = @ + 1]

hub_end_game(hubv, session_id, player1_won) ==
    [hubv EXCEPT ![session_id].end_calls = @ + 1,
                 ![session_id].player1_won = Some(player1_won)]

\* Faulty variant of verifier_accepts: the digest handed over is not compared
\* with the one in the blob.
verifier_accepts_any_hash(proof_blob, public_inputs_hash) == proof_blob.sound

\* Verifier (ZkVerifier trait): accepts a blob that carries a sound proof of
\* the public-input digest it is handed, and returns keccak256(blob).
verifier_accepts(proof_blob, public_inputs_hash) ==
    proof_blob.sound /\ proof_blob.pi_hash = public_inputs_hash

proof_id_of(proof_blob) == <<"proof", proof_blob>>

\* ------------------------------------------------------------ host frame
\* Faulty variant of frame_exit: the frame's writes stay whatever the result.
frame_exit_keeps_writes(result, before, after) == after

\* What the host leaves in storage when an entry point returns: the frame's
\* writes on Ok, the value from before the call on Err or panic.
frame_exit(result, before, after) == IF result = "Ok" THEN after ELSE before

\* Lines 903-905: the record stored under DataKey::Game(session_id).
load_game(store, session_id) == store[session_id]

\* Faulty variant of save_game: the record is written under every key.
save_game_any_key(store, session_id, game) == [s \in DOMAIN store |-> Some(game)]

\* Lines 911-917: the write under DataKey::Game(session_id).
save_game(store, session_id, game) == [store EXCEPT ![session_id] = Some(game)]

Outcome(result, game, hubv, verifier_called) ==
    [result |-> result, game |-> game, hub |-> hubv, verifier_called |-> verifier_called]

\* ------------------------------------------------------------ entry points
\* Faulty variant of start_game_checks: the session's existing record is not
\* looked up.
start_game_checks_no_lookup(gopt, player1, player2) ==
    IF player1 = player2 THEN "Panic" ELSE "pass"

\* Faulty variant of start_game_checks: the two players are not compared.
start_game_checks_self_play(gopt, player1, player2) ==
    IF is_some(gopt) THEN "GameAlreadyStarted" ELSE "pass"

\* Lines 234-239: what start_game refuses before it calls the Hub.
start_game_checks(gopt, player1, player2) ==
    IF player1 = player2 THEN "Panic"
    ELSE IF is_some(gopt) THEN "GameAlreadyStarted"
    ELSE "pass"

start_game(gopt, hubv, session_id, player1, player2, player1_points, player2_points, p1_seed_commit, p2_seed_commit, hub_ok) ==
    IF start_game_checks(gopt, player1, player2) # "pass"
    THEN Outcome(start_game_checks(gopt, player1, player2), gopt, hubv, FALSE)
    ELSE IF ~hub_ok THEN Outcome("Panic", gopt, hubv, FALSE)
    ELSE LET zero == zero_bitset
             game == [ player1 |-> player1, player2 |-> player2,
                       player1_points |-> player1_points,
                       player2_points |-> player2_points,
                       status |-> "WaitingReveal",
                       p1_seed_commit |-> p1_seed_commit,
                       p2_seed_commit |-> p2_seed_commit,
                       p1_seed_reveal |-> None, p2_seed_reveal |-> None,
                       session_seed |-> None,
                       started_at_ts |-> None, deadline_ts |-> None,
                       turn_index |-> 0,
                       active_player |-> player1,
                       player1_pos |-> Pos(1, 1),
                       player2_pos |-> Pos(MAP_W - 2, MAP_H - 2),
                       player1_score |-> 0, player2_score |-> 0,
                       walls |-> zero, loot |-> zero, loot_collected |-> zero,
                       fog_p1 |-> zero, fog_p2 |-> zero,
                       cameras |-> <<>>, lasers |-> <<>>,
                       winner |-> None, last_proof_id |-> None ]
         IN Outcome("Ok", Some(game), hub_start_game(hubv, session_id), FALSE)

\* Faulty variant of reveal_checks: the status is not tested.
reveal_checks_any_status(game, player, reveal_hash) ==
    IF player = game.player1
    THEN IF is_some(game.p1_seed_reveal) THEN "SeedAlreadyRevealed"
         ELSE IF reveal_hash # game.p1_seed_commit THEN "InvalidSeedReveal"
         ELSE "pass"
    ELSE IF player = game.player2
    THEN IF is_some(game.p2_seed_reveal) THEN "SeedAlreadyRevealed"
         ELSE IF reveal_hash # game.p2_seed_commit THEN "InvalidSeedReveal"
         ELSE "pass"
    ELSE "NotPlayer"

\* Faulty variant of reveal_checks: the secret's hash is not compared with
\* the commitment.
reveal_checks_any_secret(game, player, reveal_hash) ==
    IF game.status # "WaitingReveal" THEN "InvalidStatus"
    ELSE IF player = game.player1
    THEN IF is_some(game.p1_seed_reveal) THEN "SeedAlreadyRevealed" ELSE "pass"
    ELSE IF player = game.player2
    THEN IF is_some(game.p2_seed_reveal) THEN "SeedAlreadyRevealed" ELSE "pass"
    ELSE "NotPlayer"

\* Lines 317-342: what reveal_seed refuses.
reveal_checks(game, player, reveal_hash) ==
    IF game.status # "WaitingReveal" THEN "InvalidStatus"
    ELSE IF player = game.player1
    THEN IF is_some(game.p1_seed_reveal) THEN "SeedAlreadyRevealed"
         ELSE IF reveal_hash # game.p1_seed_commit THEN "InvalidSeedReveal"
         ELSE "pass"
    ELSE IF player = game.player2
    THEN IF is_some(game.p2_seed_reveal) THEN "SeedAlreadyRevealed"
         ELSE IF reveal_hash # game.p2_seed_commit THEN "InvalidSeedReveal"
         ELSE "pass"
    ELSE "NotPlayer"

reveal_seed(gopt, hubv, session_id, player, seed_secret) ==
    IF gopt = None THEN Outcome("GameNotFound", gopt, hubv, FALSE)
    ELSE LET game == unwrap(gopt)
             reveal_hash == commit_hash(seed_secret)
             c == reveal_checks(game, player, reveal_hash)
         IN IF c # "pass" THEN Outcome(c, gopt, hubv, FALSE)
            ELSE IF player = game.player1
            THEN Outcome("Ok", Some([game EXCEPT !.p1_seed_reveal = Some(seed_secret)]),
                         hubv, FALSE)
            ELSE Outcome("Ok", Some([game EXCEPT !.p2_seed_reveal = Some(seed_secret)]),
                         hubv, FALSE)

\* Faulty variant of begin_match_checks: the status is not tested.
begin_match_checks_any_status(game) ==
    IF ~is_some(game.p1_seed_reveal) \/ ~is_some(game.p2_seed_reveal)
    THEN "SeedsNotReady"
    ELSE "pass"

\* Lines 350-357: what begin_match refuses.
begin_match_checks(game) ==
    IF game.status # "WaitingReveal" THEN "InvalidStatus"
    ELSE IF ~is_some(game.p1_seed_reveal) \/ ~is_some(game.p2_seed_reveal)
    THEN "SeedsNotReady"
    ELSE "pass"

\* Faulty variant of begin_state: the deadline is left unset.
begin_state_no_deadline(game, session_id, ts) ==
    LET p1 == unwrap(game.p1_seed_reveal)
        p2 == unwrap(game.p2_seed_reveal)
        session_seed == derive_session_seed(session_id, p1, p2)
        map == generate_map(session_seed)
    IN [game EXCEPT
          !.session_seed = Some(session_seed),
          !.walls = map.walls,
          !.loot = map.loot,
          !.loot_collected = zero_bitset,
          !.cameras = map.cameras,
          !.lasers = map.lasers,
          !.started_at_ts = Some(ts),
          !.status = "Active",
          !.active_player = game.player1,
          !.turn_index = 0,
          !.fog_p1 = reveal_fog_4x4(game.fog_p1, game.player1_pos.x, game.player1_pos.y),
          !.fog_p2 = reveal_fog_4x4(game.fog_p2, game.player2_pos.x, game.player2_pos.y)]

\* Lines 356-380: the record begin_match builds from a record that passed
\* its checks.
begin_state(game, session_id, ts) ==
    LET p1 == unwrap(game.p1_seed_reveal)
        p2 == unwrap(game.p2_seed_reveal)
        session_seed == derive_session_seed(session_id, p1, p2)
        map == generate_map(session_seed)
    IN [game EXCEPT
          !.session_seed = Some(session_seed),
          !.walls = map.walls,
          !.loot = map.loot,
          !.loot_collected = zero_bitset,
          !.cameras = map.cameras,
          !.lasers = map.lasers,
          !.started_at_ts = Some(ts),
          !.deadline_ts = Some(ts + GAME_SECONDS),
          !.status = "Active",
          !.active_player = game.player1,
          !.turn_index = 0,
          !.fog_p1 = reveal_fog_4x4(game.fog_p1, game.player1_pos.x, game.player1_pos.y),
          !.fog_p2 = reveal_fog_4x4(game.fog_p2, game.player2_pos.x, game.player2_pos.y)]

begin_match(gopt, hubv, ts, session_id) ==
    IF gopt = None THEN Outcome("GameNotFound", gopt, hubv, FALSE)
    ELSE LET game == unwrap(gopt) IN
         IF begin_match_checks(game) # "pass"
         THEN Outcome(begin_match_checks(game), gopt, hubv, FALSE)
         ELSE Outcome("Ok", Some(begin_state(game, session_id, ts)), hubv, FALSE)

\* Faulty variant of end_checks: an Ended record is examined like any other.
end_checks_no_ended_test(game, ts) ==
    LET timeout == is_some(game.deadline_ts) /\ ts >= unwrap(game.deadline_ts)
        all_loot_collected == is_full_collection(game.loot, game.loot_collected)
    IN IF ~timeout /\ ~all_loot_collected THEN "not_finished"
       ELSE "finish"

\* Faulty variant of end_checks: a record that is not Ended is finished
\* whatever the clock and the loot.
end_checks_always_finish(game, ts) ==
    IF game.status = "Ended" THEN "ended" ELSE "finish"

\* Faulty variant of end_checks: the clock is not read; only a full
\* collection finishes the match.
end_checks_no_deadline(game, ts) ==
    IF game.status = "Ended" THEN "ended"
    ELSE IF ~is_full_collection(game.loot, game.loot_collected) THEN "not_finished"
    ELSE "finish"

\* Lines 568-577: whether end_if_finished has anything to do.
\* deadline_ts.unwrap_or(u64::MAX): no ledger timestamp of the model reaches
\* u64::MAX, so a missing deadline never times out.
end_checks(game, ts) ==
    IF game.status = "Ended" THEN "ended"
    ELSE LET timeout == is_some(game.deadline_ts) /\ ts >= unwrap(game.deadline_ts)
             all_loot_collected == is_full_collection(game.loot, game.loot_collected)
         IN IF ~timeout /\ ~all_loot_collected THEN "not_finished"
            ELSE "finish"

\* Faulty variant of player1_won: a tie goes to player2.
player1_won_strict(game) == game.player1_score > game.player2_score

\* Line 579.
player1_won(game) == game.player1_score >= game.player2_score

\* Lines 565-604.  The Hub is called through the client that traps when the
\* callee fails, after save_game.
end_if_finished(gopt, hubv, ts, session_id, hub_ok) ==
    IF gopt = None THEN Outcome("GameNotFound", gopt, hubv, FALSE)
    ELSE LET game == unwrap(gopt) IN
         IF end_checks(game, ts) # "finish" THEN Outcome("Ok", gopt, hubv, FALSE)
         ELSE LET winner == IF player1_won(game) THEN game.player1 ELSE game.player2
                  g2 == [game EXCEPT !.status = "Ended", !.winner = Some(winner)]
              IN IF ~hub_ok THEN Outcome("Panic", Some(g2), hubv, FALSE)
                 ELSE Outcome("Ok", Some(g2),
                              hub_end_game(hubv, session_id, player1_won(game)), FALSE)

\* Faulty variant of turn_binding_checks: the caller is not compared with the
\* active player.
turn_binding_checks_any_caller(game, session_id, player, proof_blob, public_turn) ==
    IF public_turn.player # player \/ public_turn.session_id # session_id
    THEN "InvalidTurnData"
    ELSE IF public_turn.turn_index # game.turn_index THEN "InvalidTurnData"
    ELSE IF proof_blob.len = 0 THEN "ProofRequired"
    ELSE IF public_turn.state_hash_before # compute_state_hash(session_id, game)
    THEN "StateHashMismatch"
    ELSE "pass"

\* Faulty variant of turn_binding_checks: the declared turn_index is not
\* compared with the stored one.
turn_binding_checks_any_index(game, session_id, player, proof_blob, public_turn) ==
    IF player # game.active_player THEN "NotActivePlayer"
    ELSE IF public_turn.player # player \/ public_turn.session_id # session_id
    THEN "InvalidTurnData"
    ELSE IF proof_blob.len = 0 THEN "ProofRequired"
    ELSE IF public_turn.state_hash_before # compute_state_hash(session_id, game)
    THEN "StateHashMismatch"
    ELSE "pass"

\* Faulty variant of turn_binding_checks: the declared state_hash_before is
\* not compared with the digest of the stored state.
turn_binding_checks_any_before(game, session_id, player, proof_blob, public_turn) ==
    IF player # game.active_player THEN "NotActivePlayer"
    ELSE IF public_turn.player # player \/ public_turn.session_id # session_id
    THEN "InvalidTurnData"
    ELSE IF public_turn.turn_index # game.turn_index THEN "InvalidTurnData"
    ELSE IF proof_blob.len = 0 THEN "ProofRequired"
    ELSE "pass"

\* Lines 403-419: caller, turn binding, proof presence, digest before.
turn_binding_checks(game, session_id, player, proof_blob, public_turn) ==
    IF player # game.active_player THEN "NotActivePlayer"
    ELSE IF public_turn.player # player \/ public_turn.session_id # session_id
    THEN "InvalidTurnData"
    ELSE IF public_turn.turn_index # game.turn_index THEN "InvalidTurnData"
    ELSE IF proof_blob.len = 0 THEN "ProofRequired"
    ELSE IF public_turn.state_hash_before # compute_state_hash(session_id, game)
    THEN "StateHashMismatch"
    ELSE "pass"

\* Lines 442-458: the no-path branch.
no_path_checks(walls, current_pos, public_turn) ==
    IF \/ public_turn.start_pos # public_turn.end_pos
       \/ public_turn.score_delta # 0
       \/ public_turn.camera_hits # 0
       \/ public_turn.laser_hits # 0
       \/ has_any_set_bit(public_turn.loot_collected_mask_delta)
       \/ Len(public_turn.path) # 1
       \/ public_turn.path[1] # public_turn.start_pos
    THEN "InvalidNoPathFlag"
    ELSE IF exists_any_path_len(walls, current_pos, 1)
    THEN "InvalidNoPathFlag"
    ELSE "pass"

\* Faulty variant of move_checks: the declared roll is not compared with the
\* derived one.
move_checks_any_roll(game, player, public_turn) ==
    LET current_pos == IF player = game.player1 THEN game.player1_pos
                       ELSE game.player2_pos
    IN
    IF public_turn.start_pos # current_pos THEN "InvalidTurnData"
    ELSE IF ~is_some(game.session_seed) THEN "SeedsNotReady"
    ELSE LET rolled == roll_value(unwrap(game.session_seed), game.turn_index,
                                  IF player = game.player1 THEN 1 ELSE 2)
             walls == game.walls
         IN
         IF public_turn.no_path_flag
         THEN no_path_checks(walls, current_pos, public_turn)
         ELSE IF ~validate_path(walls, public_turn.path, rolled)
         THEN "InvalidMoveLength"
         ELSE IF public_turn.path[Len(public_turn.path)] # public_turn.end_pos
         THEN "InvalidMoveLength"
         ELSE "pass"

\* Lines 421-470: start position, dice, no-path or path.
move_checks(game, player, public_turn) ==
    LET current_pos == IF player = game.player1 THEN game.player1_pos
                       ELSE game.player2_pos
    IN
    IF public_turn.start_pos # current_pos THEN "InvalidTurnData"
    ELSE IF ~is_some(game.session_seed) THEN "SeedsNotReady"
    ELSE LET rolled == roll_value(unwrap(game.session_seed), game.turn_index,
                                  IF player = game.player1 THEN 1 ELSE 2)
             walls == game.walls
         IN
         IF rolled # public_turn.rolled_value THEN "InvalidMoveLength"
         ELSE IF public_turn.no_path_flag
         THEN no_path_checks(walls, current_pos, public_turn)
         ELSE IF ~validate_path(walls, public_turn.path, rolled)
         THEN "InvalidMoveLength"
         ELSE IF public_turn.path[Len(public_turn.path)] # public_turn.end_pos
         THEN "InvalidMoveLength"
         ELSE "pass"

\* Lines 486-503: the loop over the bits of the computed loot delta, in
\* ascending order; the first offending bit decides the error.
mark_loot(loot, collected, loot_delta) ==
    LET delta_bits == {i \in 0..(CELL_COUNT - 1) : bit_is_set(loot_delta, i)}
        bad == {i \in delta_bits : ~bit_is_set(loot, i) \/ bit_is_set(collected, i)}
        first == CHOOSE i \in bad : \A j \in bad : i <= j
    IN IF bad # {}
       THEN [result |-> IF ~bit_is_set(loot, first) THEN "LootOutOfBounds"
                        ELSE "LootAlreadyCollected",
             collected |-> collected, loot_points |-> 0]
       ELSE [result |-> "pass",
             collected |-> collected \cup delta_bits,
             loot_points |-> Cardinality(delta_bits)]

\* Faulty variant of reconcile: the declared loot delta is not compared with
\* the computed one.
reconcile_any_mask(public_turn, loot_delta, loot_points, hits) ==
    LET expected_delta == loot_points - public_turn.camera_hits * CAMERA_PENALTY
                                      - public_turn.laser_hits * LASER_PENALTY
    IN
    IF public_turn.camera_hits # hits.camera_hits \/ public_turn.laser_hits # hits.laser_hits
    THEN "InvalidTurnData"
    ELSE IF expected_delta # public_turn.score_delta THEN "InvalidScoreDelta"
    ELSE "pass"

\* Faulty variant of reconcile: the declared score delta is not compared with
\* the expected one.
reconcile_any_score(public_turn, loot_delta, loot_points, hits) ==
    IF public_turn.camera_hits # hits.camera_hits \/ public_turn.laser_hits # hits.laser_hits
    THEN "InvalidTurnData"
    ELSE IF public_turn.loot_collected_mask_delta # loot_delta THEN "InvalidTurnData"
    ELSE "pass"

\* Lines 510-523: declared hazard hits, loot delta and score delta against the
\* computed ones.
reconcile(public_turn, loot_delta, loot_points, hits) ==
    LET expected_delta == loot_points - public_turn.camera_hits * CAMERA_PENALTY
                                      - public_turn.laser_hits * LASER_PENALTY
    IN
    IF public_turn.camera_hits # hits.camera_hits \/ public_turn.laser_hits # hits.laser_hits
    THEN "InvalidTurnData"
    ELSE IF public_turn.loot_collected_mask_delta # loot_delta THEN "InvalidTurnData"
    ELSE IF expected_delta # public_turn.score_delta THEN "InvalidScoreDelta"
    ELSE "pass"

\* Faulty variant of apply_move: the cameras the mover has passed are taken
\* off the board.
apply_move_clears_cameras(game, player, public_turn, collected, proof_id) ==
    LET g1 == [game EXCEPT !.loot_collected = collected, !.cameras = <<>>]
        g2 == IF player = game.player1
              THEN [g1 EXCEPT
                      !.player1_pos = public_turn.end_pos,
                      !.player1_score = @ + public_turn.score_delta,
                      !.fog_p1 = reveal_fog_4x4(@, public_turn.end_pos.x,
                                                public_turn.end_pos.y),
                      !.active_player = game.player2]
              ELSE [g1 EXCEPT
                      !.player2_pos = public_turn.end_pos,
                      !.player2_score = @ + public_turn.score_delta,
                      !.fog_p2 = reveal_fog_4x4(@, public_turn.end_pos.x,
                                                public_turn.end_pos.y),
                      !.active_player = game.player1]
    IN [g2 EXCEPT !.turn_index = @ + 1, !.last_proof_id = Some(proof_id)]

\* Lines 525-549.  An accepted score_delta lies between -7 and 7 (a path has at
\* most 7 cells, a map 3 cameras and 2 lasers), so checked_add on i128 never
\* overflows.
apply_move(game, player, public_turn, collected, proof_id) ==
    LET g1 == [game EXCEPT !.loot_collected = collected]
        g2 == IF player = game.player1
              THEN [g1 EXCEPT
                      !.player1_pos = public_turn.end_pos,
                      !.player1_score = @ + public_turn.score_delta,
                      !.fog_p1 = reveal_fog_4x4(@, public_turn.end_pos.x,
                                                public_turn.end_pos.y),
                      !.active_player = game.player2]
              ELSE [g1 EXCEPT
                      !.player2_pos = public_turn.end_pos,
                      !.player2_score = @ + public_turn.score_delta,
                      !.fog_p2 = reveal_fog_4x4(@, public_turn.end_pos.x,
                                                public_turn.end_pos.y),
                      !.active_player = game.player1]
    IN [g2 EXCEPT !.turn_index = @ + 1, !.last_proof_id = Some(proof_id)]

\* Lines 481-554: what follows a successful Verifier call, up to save_game.
turn_apply(game, session_id, player, public_turn, proof_id) ==
    LET loot_delta == IF public_turn.no_path_flag THEN zero_bitset
                      ELSE collect_loot_delta_from_path(game.loot, game.loot_collected,
                                                        public_turn.path)
        m == mark_loot(game.loot, game.loot_collected, loot_delta)
        hits == IF public_turn.no_path_flag
                THEN [camera_hits |-> 0, laser_hits |-> 0]
                ELSE compute_hazard_hits(public_turn.path, game.cameras, game.lasers)
        r == reconcile(public_turn, loot_delta, m.loot_points, hits)
        g3 == apply_move(game, player, public_turn, m.collected, proof_id)
    IN
    IF m.result # "pass" THEN [result |-> m.result, game |-> game]
    ELSE IF r # "pass" THEN [result |-> r, game |-> game]
    ELSE IF compute_state_hash(session_id, g3) # public_turn.state_hash_after
    THEN [result |-> "StateHashMismatch", game |-> g3]
    ELSE [result |-> "Ok", game |-> g3]

\* Faulty variant of submit_turn: an accepted turn is saved and the call
\* returns without the end check.
submit_turn_no_end_check(gopt, hubv, ts, session_id, player, proof_blob, public_turn, hub_ok) ==
    IF gopt = None THEN Outcome("GameNotFound", gopt, hubv, FALSE)
    ELSE LET game == unwrap(gopt) IN
    IF game.status # "Active" THEN Outcome("GameAlreadyEnded", gopt, hubv, FALSE)
    ELSE IF unwrap_or(game.deadline_ts, 0) <= ts
    THEN LET e == end_if_finished(gopt, hubv, ts, session_id, hub_ok) IN
         IF e.result # "Ok" THEN e
         ELSE Outcome("TimerExpired", e.game, e.hub, FALSE)
    ELSE LET c == turn_binding_checks(game, session_id, player, proof_blob, public_turn) IN
    IF c # "pass" THEN Outcome(c, gopt, hubv, FALSE)
    ELSE LET mc == move_checks(game, player, public_turn) IN
    IF mc # "pass" THEN Outcome(mc, gopt, hubv, FALSE)
    ELSE LET expected_turn_hash == compute_turn_public_hash(public_turn) IN
    IF ~verifier_accepts(proof_blob, expected_turn_hash)
    THEN Outcome("Panic", gopt, hubv, TRUE)
    ELSE LET a == turn_apply(game, session_id, player, public_turn, proof_id_of(proof_blob)) IN
    IF a.result # "Ok" THEN Outcome(a.result, gopt, hubv, TRUE)
    ELSE Outcome("Ok", Some(a.game), hubv, TRUE)

\* Lines 386-562.
submit_turn(gopt, hubv, ts, session_id, player, proof_blob, public_turn, hub_ok) ==
    IF gopt = None THEN Outcome("GameNotFound", gopt, hubv, FALSE)
    ELSE LET game == unwrap(gopt) IN
    IF game.status # "Active" THEN Outcome("GameAlreadyEnded", gopt, hubv, FALSE)
    ELSE IF unwrap_or(game.deadline_ts, 0) <= ts
    THEN LET e == end_if_finished(gopt, hubv, ts, session_id, hub_ok) IN
         IF e.result # "Ok" THEN e
         ELSE Outcome("TimerExpired", e.game, e.hub, FALSE)
    ELSE LET c == turn_binding_checks(game, session_id, player, proof_blob, public_turn) IN
    IF c # "pass" THEN Outcome(c, gopt, hubv, FALSE)
    ELSE LET mc == move_checks(game, player, public_turn) IN
    IF mc # "pass" THEN Outcome(mc, gopt, hubv, FALSE)
    ELSE LET expected_turn_hash == compute_turn_public_hash(public_turn) IN
    IF ~verifier_accepts(proof_blob, expected_turn_hash)
    THEN Outcome("Panic", gopt, hubv, TRUE)
    ELSE LET a == turn_apply(game, session_id, player, public_turn, proof_id_of(proof_blob)) IN
    IF a.result # "Ok" THEN Outcome(a.result, gopt, hubv, TRUE)
    ELSE LET e == end_if_finished(Some(a.game), hubv, ts, session_id, hub_ok) IN
         Outcome(e.result, e.game, e.hub, TRUE)

\* Lines 732-735; Err(GameNotFound) is <<>>.
get_state_hash(gopt, session_id) ==
    IF gopt = None THEN None
    ELSE Some(compute_state_hash(session_id, unwrap(gopt)))

\* Faulty variant of simulate_state_hash_after: the fog of the mover is left
\* as it is.
simulate_state_hash_after_no_reveal(gopt, session_id, public_turn) ==
    IF gopt = None THEN None
    ELSE LET game == unwrap(gopt) IN
    IF game.status # "Active" THEN None
    ELSE LET loot_delta == public_turn.loot_collected_mask_delta
             g1 == [game EXCEPT
                      !.loot_collected =
                          @ \cup {i \in 0..(CELL_COUNT - 1) : bit_is_set(loot_delta, i)}]
             g2 == IF public_turn.player = game.player1
                   THEN [g1 EXCEPT
                           !.player1_pos = public_turn.end_pos,
                           !.player1_score = @ + public_turn.score_delta,
                           !.active_player = game.player2]
                   ELSE [g1 EXCEPT
                           !.player2_pos = public_turn.end_pos,
                           !.player2_score = @ + public_turn.score_delta,
                           !.active_player = game.player1]
             g3 == [g2 EXCEPT !.turn_index = @ + 1]
         IN Some(compute_state_hash(session_id, g3))

\* Lines 760-805; Err(InvalidStatus) and Err(GameNotFound) are <<>>.
simulate_state_hash_after(gopt, session_id, public_turn) ==
    IF gopt = None THEN None
    ELSE LET game == unwrap(gopt) IN
    IF game.status # "Active" THEN None
    ELSE LET loot_delta == public_turn.loot_collected_mask_delta
             g1 == [game EXCEPT
                      !.loot_collected =
                          @ \cup {i \in 0..(CELL_COUNT - 1) : bit_is_set(loot_delta, i)}]
             g2 == IF public_turn.player = game.player1
                   THEN [g1 EXCEPT
                           !.player1_pos = public_turn.end_pos,
                           !.player1_score = @ + public_turn.score_delta,
                           !.active_player = game.player2,
                           !.fog_p1 = reveal_fog_4x4(@, public_turn.end_pos.x,
                                                     public_turn.end_pos.y)]
                   ELSE [g1 EXCEPT
                           !.player2_pos = public_turn.end_pos,
                           !.player2_score = @ + public_turn.score_delta,
                           !.active_player = game.player1,
                           !.fog_p2 = reveal_fog_4x4(@, public_turn.end_pos.x,
                                                     public_turn.end_pos.y)]
             g3 == [g2 EXCEPT !.turn_index = @ + 1]
         IN Some(compute_state_hash(session_id, g3))

\* Lines 738-752.
get_expected_roll(gopt, session_id, player) ==
    IF gopt = None THEN [result |-> "GameNotFound", value |-> 0]
    ELSE LET game == unwrap(gopt) IN
    IF game.status # "Active" THEN [result |-> "InvalidStatus", value |-> 0]
    ELSE IF player # game.player1 /\ player # game.player2
    THEN [result |-> "NotPlayer", value |-> 0]
    ELSE IF ~is_some(game.session_seed) THEN [result |-> "SeedsNotReady", value |-> 0]
    ELSE [result |-> "Ok",
          value |-> roll_value(unwrap(game.session_seed), game.turn_index,
                               IF player = game.player1 THEN 1 ELSE 2)]

\* Lines 1028-1049: some in-bounds cell within the camera's Manhattan radius
\* is in the fog.
camera_intersects_fog(camera, fog) ==
    \E di \in (-camera.radius)..camera.radius :
       LET rem == camera.radius - (IF di < 0 THEN -di ELSE di) IN
       \E dj \in (-rem)..rem :
          LET nx == camera.x + di
              ny == camera.y + dj
          IN /\ nx >= 0 /\ ny >= 0 /\ nx < MAP_W /\ ny < MAP_H
             /\ bit_is_set(fog, ny * MAP_W + nx)

\* Lines 1051-1083: some cell of an axis-aligned laser is in the fog.
laser_intersects_fog(laser, fog) ==
    IF laser.x1 = laser.x2
    THEN \E y \in laser.y1..laser.y2 : bit_is_set(fog, y * MAP_W + laser.x1)
    ELSE IF laser.y1 = laser.y2
    THEN \E x \in laser.x1..laser.x2 : bit_is_set(fog, laser.y1 * MAP_W + x)
    ELSE FALSE

\* Faulty variant of get_player_view: the walls are returned whole.
get_player_view_all_walls(gopt, session_id, player) ==
    IF gopt = None THEN [result |-> "GameNotFound", value |-> None]
    ELSE LET game == unwrap(gopt) IN
    IF player # game.player1 /\ player # game.player2
    THEN [result |-> "NotPlayer", value |-> None]
    ELSE LET my_fog == IF player = game.player1 THEN game.fog_p1 ELSE game.fog_p2
         IN [result |-> "Ok",
             value |->
               [ player1 |-> game.player1, player2 |-> game.player2,
                 status |-> game.status, started_at_ts |-> game.started_at_ts,
                 deadline_ts |-> game.deadline_ts, turn_index |-> game.turn_index,
                 active_player |-> game.active_player,
                 player1_pos |-> game.player1_pos, player2_pos |-> game.player2_pos,
                 player1_score |-> game.player1_score,
                 player2_score |-> game.player2_score,
                 loot_collected |-> game.loot_collected,
                 visible_walls |-> game.walls,
                 visible_loot |->
                    {i \in 0..(CELL_COUNT - 1) : bit_is_set(my_fog, i) /\ bit_is_set(game.loot, i)},
                 visible_cameras |->
                    SelectSeq(game.cameras, LAMBDA cam : camera_intersects_fog(cam, my_fog)),
                 visible_lasers |->
                    SelectSeq(game.lasers, LAMBDA laser : laser_intersects_fog(laser, my_fog)),
                 my_fog |-> my_fog, winner |-> game.winner,
                 last_proof_id |-> game.last_proof_id ]]

\* Lines 638-716.
get_player_view(gopt, session_id, player) ==
    IF gopt = None THEN [result |-> "GameNotFound", value |-> None]
    ELSE LET game == unwrap(gopt) IN
    IF player # game.player1 /\ player # game.player2
    THEN [result |-> "NotPlayer", value |-> None]
    ELSE LET my_fog == IF player = game.player1 THEN game.fog_p1 ELSE game.fog_p2
         IN [result |-> "Ok",
             value |->
               [ player1 |-> game.player1, player2 |-> game.player2,
                 status |-> game.status, started_at_ts |-> game.started_at_ts,
                 deadline_ts |-> game.deadline_ts, turn_index |-> game.turn_index,
                 active_player |-> game.active_player,
                 player1_pos |-> game.player1_pos, player2_pos |-> game.player2_pos,
                 player1_score |-> game.player1_score,
                 player2_score |-> game.player2_score,
                 loot_collected |-> game.loot_collected,
                 visible_walls |->
                    {i \in 0..(CELL_COUNT - 1) : bit_is_set(my_fog, i) /\ bit_is_set(game.walls, i)},
                 visible_loot |->
                    {i \in 0..(CELL_COUNT - 1) : bit_is_set(my_fog, i) /\ bit_is_set(game.loot, i)},
                 visible_cameras |->
                    SelectSeq(game.cameras, LAMBDA cam : camera_intersects_fog(cam, my_fog)),
                 visible_lasers |->
                    SelectSeq(game.lasers, LAMBDA laser : laser_intersects_fog(laser, my_fog)),
                 my_fog |-> my_fog, winner |-> game.winner,
                 last_proof_id |-> game.last_proof_id ]]

\* ------------------------------------------------------------ zk-verifier
\* The verifier contract (zk-verifier/src/lib.rs).  A key is its length, the
\* count n_ic at bytes 448..452 and the circuit its points belong to; a blob
\* is its length, the count n_pub at bytes 0..4, the public input at 4..36
\* and the circuit and public input its proof points were made for (0: for
\* none).  The pairing equation holds exactly for a proof made for the key's
\* circuit and the blob's own public input.
pairing_check(vk, proof_blob) ==
    proof_blob.proof_for = <<vk.circuit, proof_blob.pi_hash>>

\* Faulty variant of verify_groth16: the public-input count is not compared
\* with the key's.
verify_groth16_any_count(vk, proof_blob) ==
    IF vk.len < 452 THEN None
    ELSE IF vk.len < 452 + vk.n_ic * 64 THEN None
    ELSE IF proof_blob.len < 4 + proof_blob.n_pub * 32 + 64 + 128 + 64 THEN None
    ELSE IF ~pairing_check(vk, proof_blob) THEN None
    ELSE Some(proof_blob.pi_hash)

\* Lines 84-155.
verify_groth16(vk, proof_blob) ==
    IF vk.len < 452 THEN None
    ELSE LET n_ic == vk.n_ic
             vk_min_len == 452 + n_ic * 64
         IN
         IF vk.len < vk_min_len THEN None
         ELSE LET n_pub == proof_blob.n_pub
                  pub_offset == 4
                  pi_a_offset == pub_offset + n_pub * 32
                  pi_b_offset == pi_a_offset + 64
                  pi_c_offset == pi_b_offset + 128
              IN
              IF n_pub + 1 # n_ic THEN None
              ELSE IF proof_blob.len < pi_c_offset + 64 THEN None
              ELSE IF ~pairing_check(vk, proof_blob) THEN None
              ELSE Some(proof_blob.pi_hash)

ZkOutcome(result, zkv, value) == [result |-> result, zk |-> zkv, value |-> value]

\* Lines 185-198; the hash is sha256(vk).
set_vk(zkv, caller, admin, vk) ==
    IF caller # admin THEN ZkOutcome("Panic", zkv, None)
    ELSE ZkOutcome("Ok", [zkv EXCEPT !.vk = Some(vk), !.vk_hash = Some(<<"sha256", vk>>)],
                   Some(<<"sha256", vk>>))

\* Lines 210-223.
verify_proof_with_stored_vk(zkv, proof_blob) ==
    IF zkv.vk = None THEN ZkOutcome("Panic", zkv, None)
    ELSE IF verify_groth16(unwrap(zkv.vk), proof_blob) = None
    THEN ZkOutcome("Panic", zkv, None)
    ELSE LET proof_id == proof_id_of(proof_blob)
         IN ZkOutcome("Ok", [zkv EXCEPT !.verified = @ \cup {proof_id}], Some(proof_id))

\* Lines 225-227.
is_verified(zkv, proof_id) == proof_id \in zkv.verified

\* ------------------------------------------------------------ zk-verifier-core
\* The proof blob format check (zk-verifier-core/src/lib.rs).  A blob is its
\* length and its first four bytes (fewer when it is shorter); the bytes
\* after the header are not read by the check.
FIELD_SIZE_BYTES == 32

PROOF_BLOB_HEADER_BYTES == 4

SUPPORTED_PROOF_FIELDS == {424, 440, 456}

blob_get(proof_blob, i) ==
    IF i < Len(proof_blob.head) THEN Some(proof_blob.head[i + 1]) ELSE None

\* Lines 53-62; b << 24 | b << 16 | b << 8 | b of four bytes is their sum.
decode_total_fields_header(proof_blob) ==
    IF proof_blob.len < PROOF_BLOB_HEADER_BYTES THEN [result |-> "TooShort", value |-> None]
    ELSE LET b0 == blob_get(proof_blob, 0)
             b1 == blob_get(proof_blob, 1)
             b2 == blob_get(proof_blob, 2)
             b3 == blob_get(proof_blob, 3)
         IN
         IF b0 = None \/ b1 = None \/ b2 = None \/ b3 = None
         THEN [result |-> "TooShort", value |-> None]
         ELSE [result |-> "Ok",
               value |-> Some(unwrap(b0) * 16777216 + unwrap(b1) * 65536
                              + unwrap(b2) * 256 + unwrap(b3))]

\* Faulty variant of parse_and_validate_proof_blob: the length is compared
\* before the field count is looked up in the supported counts.
parse_and_validate_proof_blob_length_first(proof_blob, expected_public_inputs) ==
    LET len == proof_blob.len
        header == decode_total_fields_header(proof_blob)
    IN
    IF header.result # "Ok" THEN [result |-> header.result, value |-> None]
    ELSE LET total_fields == unwrap(header.value)
             proof_fields == total_fields - expected_public_inputs
         IN
         IF len # PROOF_BLOB_HEADER_BYTES + total_fields * FIELD_SIZE_BYTES
         THEN [result |-> "LengthMismatch", value |-> None]
         ELSE IF total_fields < expected_public_inputs
         THEN [result |-> "UnexpectedFieldCount", value |-> None]
         ELSE IF proof_fields \notin SUPPORTED_PROOF_FIELDS
         THEN [result |-> "UnexpectedFieldCount", value |-> None]
         ELSE [result |-> "Ok",
               value |-> Some([total_fields |-> total_fields,
                               proof_fields |-> proof_fields,
                               public_input_fields |-> expected_public_inputs,
                               blob_len |-> len])]

\* Lines 68-94.
parse_and_validate_proof_blob(proof_blob, expected_public_inputs) ==
    LET len == proof_blob.len
        header == decode_total_fields_header(proof_blob)
    IN
    IF header.result # "Ok" THEN [result |-> header.result, value |-> None]
    ELSE LET total_fields == unwrap(header.value)
             proof_fields == total_fields - expected_public_inputs
             expected_len == PROOF_BLOB_HEADER_BYTES + total_fields * FIELD_SIZE_BYTES
         IN
         IF total_fields < expected_public_inputs
         THEN [result |-> "UnexpectedFieldCount", value |-> None]
         ELSE IF proof_fields \notin SUPPORTED_PROOF_FIELDS
         THEN [result |-> "UnexpectedFieldCount", value |-> None]
         ELSE IF len # expected_len
         THEN [result |-> "LengthMismatch", value |-> None]
         ELSE [result |-> "Ok",
               value |-> Some([total_fields |-> total_fields,
                               proof_fields |-> proof_fields,
                               public_input_fields |-> expected_public_inputs,
                               blob_len |-> len])]

\* ------------------------------------------------------------ state
VARIABLES
    games,    \* temporary storage: DataKey::Game(session_id) -> Option<Game>
    hub,      \* the Hub contract's storage
    now,      \* env.ledger().timestamp()
    last,     \* the call that has just returned: its arguments (turn and blob of
              \* submit_turn, the others' in args), the stored record it found, its
              \* result and whether it reached the Verifier; "idle" once the
              \* caller has read it
    accepted, \* per session, the accepted submit_turn calls in order (kept by
              \* their senders, who may send them again)
    zk,       \* the zk-verifier contract's instance storage: the verification
              \* key and the proof ids marked as verified
    probe     \* a pure function under examination, or a call on the verifier
              \* contract: its inputs and, once it has been applied, its result

vars == <<games, hub, now, last, accepted, zk, probe>>

\* ------------------------------------------------------------ callers' inputs
PlayerPairs == {<<"A", "B">>, <<"A", "A">>}

Commits == {commit_hash(s) : s \in Secrets}

NoTurn ==
    [ session_id |-> 0, turn_index |-> 0, player |-> "C",
      start_pos |-> Pos(0, 0), end_pos |-> Pos(0, 0),
      rolled_value |-> 0, score_delta |-> 0, camera_hits |-> 0, laser_hits |-> 0,
      loot_collected_mask_delta |-> {}, no_path_flag |-> FALSE,
      state_hash_before |-> <<>>, state_hash_after |-> <<>>, path |-> <<>> ]

NoBlob == [len |-> 0, pi_hash |-> <<>>, sound |-> FALSE]

CurrentPos(game, player) ==
    IF player = game.player1 THEN game.player1_pos ELSE game.player2_pos

\* The direction towards the middle of the board, per axis.
Fwd(p) ==
    [x |-> IF p.x < MAP_W \div 2 THEN 1 ELSE -1,
     y |-> IF p.y < MAP_H \div 2 THEN 1 ELSE -1]

\* Straight runs of k steps from cur along x and along y.
RunX(cur, k) == [i \in 1..(k + 1) |-> Pos(cur.x + (i - 1) * Fwd(cur).x, cur.y)]

RunY(cur, k) == [i \in 1..(k + 1) |-> Pos(cur.x, cur.y + (i - 1) * Fwd(cur).y)]

\* The start cell alone, and the straight runs of up to MaxSteps steps.
RunPaths(cur) ==
    {<<cur>>} \cup {RunX(cur, k) : k \in 1..MaxSteps} \cup {RunY(cur, k) : k \in 1..MaxSteps}

\* One step along x, then one along y.
LPath(cur) ==
    <<cur, Pos(cur.x + Fwd(cur).x, cur.y), Pos(cur.x + Fwd(cur).x, cur.y + Fwd(cur).y)>>

\* A path with a diagonal step, one that comes back to its first cell, and one
\* that runs along +x (out of bounds from the last but one column).
DiagPath(cur) == <<cur, Pos(cur.x + 1, cur.y + 1)>>

BackPath(cur) == <<cur, Pos(cur.x + 1, cur.y), cur>>

OutPath(cur) == <<cur, Pos(cur.x + 1, cur.y), Pos(cur.x + 2, cur.y)>>

\* A path that starts away from the mover's cell.
TeleportPaths(cur) ==
    LET far == Pos(MAP_W - 1 - cur.x, cur.y)
    IN {<<far, Pos(far.x, far.y + 1)>>, <<far, Pos(far.x - 1, far.y)>>}

WithAfter(game, session_id, t) ==
    [t EXCEPT !.state_hash_after =
        unwrap_or(simulate_state_hash_after(Some(game), session_id, t), <<>>)]

\* The turn a client builds for `path` from the views of the current state.
MakeTurn(game, session_id, player, path, no_path) ==
    LET delta == IF no_path THEN {}
                 ELSE collect_loot_delta_from_path(game.loot, game.loot_collected, path)
        hits == IF no_path THEN [camera_hits |-> 0, laser_hits |-> 0]
                ELSE compute_hazard_hits(path, game.cameras, game.lasers)
        t == [ session_id |-> session_id,
               turn_index |-> game.turn_index,
               player |-> player,
               start_pos |-> CurrentPos(game, player),
               end_pos |-> path[Len(path)],
               rolled_value |-> roll_value(unwrap(game.session_seed), game.turn_index,
                                           IF player = game.player1 THEN 1 ELSE 2),
               score_delta |-> Cardinality(delta) - hits.camera_hits * CAMERA_PENALTY
                                                  - hits.laser_hits * LASER_PENALTY,
               camera_hits |-> hits.camera_hits,
               laser_hits |-> hits.laser_hits,
               loot_collected_mask_delta |-> delta,
               no_path_flag |-> no_path,
               state_hash_before |-> compute_state_hash(session_id, game),
               state_hash_after |-> <<>>,
               path |-> path ]
    IN WithAfter(game, session_id, t)

TamperKinds ==
    { "turn_index_next", "turn_index_prev", "session_id", "player",
      "state_hash_before", "state_hash_after", "start_pos", "end_pos",
      "rolled_value", "score_delta", "camera_hits", "laser_hits",
      "loot_add_collected", "loot_add_other", "loot_add_loot", "loot_drop",
      "no_path_flag" }

\* One field of an otherwise well-built turn changed.
Tamper(game, session_id, t, kind) ==
    LET other_hash == compute_state_hash(session_id, [game EXCEPT !.turn_index = @ + 1])
        spare == (game.loot \ game.loot_collected) \ t.loot_collected_mask_delta
        u == CASE kind = "turn_index_next" -> [t EXCEPT !.turn_index = @ + 1]
               [] kind = "turn_index_prev" ->
                      [t EXCEPT !.turn_index = IF @ > 0 THEN @ - 1 ELSE @ + 2]
               [] kind = "session_id" -> [t EXCEPT !.session_id = @ + 1]
               [] kind = "player" ->
                      [t EXCEPT !.player = IF @ = game.player1 THEN game.player2
                                           ELSE game.player1]
               [] kind = "state_hash_before" -> [t EXCEPT !.state_hash_before = other_hash]
               [] kind = "start_pos" -> [t EXCEPT !.start_pos = Pos(@.x + 1, @.y)]
               [] kind = "end_pos" -> [t EXCEPT !.end_pos = Pos(@.x, @.y + 1)]
               [] kind = "rolled_value" -> [t EXCEPT !.rolled_value = (@ % 6) + 1]
               [] kind = "score_delta" -> [t EXCEPT !.score_delta = @ + 1]
               [] kind = "camera_hits" -> [t EXCEPT !.camera_hits = @ + 1]
               [] kind = "laser_hits" -> [t EXCEPT !.laser_hits = @ + 1]
               [] kind = "loot_add_collected" ->
                      [t EXCEPT !.loot_collected_mask_delta = @ \cup game.loot_collected]
               [] kind = "loot_add_other" ->
                      [t EXCEPT !.loot_collected_mask_delta = @ \cup {0}]
               [] kind = "loot_add_loot" ->
                      [t EXCEPT !.loot_collected_mask_delta =
                          IF spare = {} THEN @
                          ELSE @ \cup {CHOOSE b \in spare : \A c \in spare : b <= c}]
               [] kind = "loot_drop" -> [t EXCEPT !.loot_collected_mask_delta = {}]
               [] kind = "no_path_flag" -> [t EXCEPT !.no_path_flag = TRUE]
               [] OTHER -> t
    IN IF kind = "state_hash_after" THEN [t EXCEPT !.state_hash_after = other_hash]
       ELSE WithAfter(game, session_id, u)

BlobKinds == {"good", "empty", "unsound", "wrong_pi"}

MakeBlob(t, kind) ==
    [ len |-> IF kind = "empty" THEN 0 ELSE 292,
      pi_hash |-> IF kind = "wrong_pi"
                  THEN compute_turn_public_hash([t EXCEPT !.turn_index = @ + 1])
                  ELSE compute_turn_public_hash(t),
      sound |-> kind # "unsound" ]

Call(t, kind) == [turn |-> t, blob |-> MakeBlob(t, kind)]

\* The calls of the session that were accepted before.
Replays(session_id) ==
    {accepted[session_id][i] : i \in 1..Len(accepted[session_id])}

\* Those that `player` sent.
OwnReplays(session_id, player) ==
    {c \in Replays(session_id) : c.turn.player = player}

\* What `player` may submit in the current state of the session.  Once
\* MaxTurns turns are accepted only earlier calls are sent again.
Candidates(gopt, session_id, player) ==
    IF gopt = None THEN {[turn |-> NoTurn, blob |-> NoBlob]}
    ELSE LET game == unwrap(gopt) IN
    IF game.status # "Active" THEN {[turn |-> NoTurn, blob |-> NoBlob]}
    ELSE IF game.turn_index >= MaxTurns THEN OwnReplays(session_id, player)
    ELSE LET cur == CurrentPos(game, player)
             one == <<cur, Pos(cur.x + 1, cur.y)>>
             two == <<cur, Pos(cur.x, cur.y + 1)>>
         IN
         IF player # game.active_player
         THEN {Call(MakeTurn(game, session_id, player, one, FALSE), "good")}
              \cup OwnReplays(session_id, player)
         ELSE {Call(MakeTurn(game, session_id, player, p, FALSE), "good") :
                  p \in RunPaths(cur) \cup TeleportPaths(cur)
                           \cup {LPath(cur), DiagPath(cur), BackPath(cur), OutPath(cur)}}
              \cup {Call(MakeTurn(game, session_id, player, <<cur>>, TRUE), "good")}
              \cup {Call(Tamper(game, session_id,
                                MakeTurn(game, session_id, player, p, FALSE), k), "good") :
                       p \in {one, two}, k \in TamperKinds}
              \cup {Call(MakeTurn(game, session_id, player, one, FALSE), b) : b \in BlobKinds}
              \cup Replays(session_id)

\* The brief choice: the turn a client builds for one step along x, with a
\* sound proof.
BriefCandidates(gopt, session_id, player) ==
    IF gopt = None THEN {[turn |-> NoTurn, blob |-> NoBlob]}
    ELSE LET game == unwrap(gopt) IN
    IF game.status # "Active" THEN {[turn |-> NoTurn, blob |-> NoBlob]}
    ELSE IF game.turn_index >= MaxTurns THEN OwnReplays(session_id, player)
    ELSE {Call(MakeTurn(game, session_id, player, RunX(CurrentPos(game, player), 1), FALSE),
               "good")}

\* ------------------------------------------------------------ actions
Record(op, session_id, caller, o, turn, blob) ==
    [ op |-> op, session_id |-> session_id, caller |-> caller,
      before |-> games[session_id],
      replay |-> [turn |-> turn, blob |-> blob] \in Replays(session_id),
      result |-> o.result, verifier_called |-> o.verifier_called,
      turn |-> turn, blob |-> blob, args |-> <<>> ]

\* What a call leaves behind: the record it saved, if it saved one, and its
\* Hub calls, both subject to the frame's exit.
Commit(session_id, o) ==
    /\ games' = frame_exit(o.result, games,
                           IF o.game = load_game(games, session_id) THEN games
                           ELSE save_game(games, session_id, unwrap(o.game)))
    /\ hub' = frame_exit(o.result, hub, o.hub)
    /\ UNCHANGED <<now, zk, probe>>

Idle ==
    [ op |-> "idle", session_id |-> 0, caller |-> "C", before |-> None, replay |-> FALSE,
      result |-> "Ok", verifier_called |-> FALSE, turn |-> NoTurn, blob |-> NoBlob,
      args |-> <<>> ]

\* The verifier contract as deployed, before any key is set; no function
\* under examination.
ZkInit == [vk |-> None, vk_hash |-> None, verified |-> {}]

NoProbe == [fn |-> "none"]

Init ==
    /\ games = [s \in SessionIdsAll |-> None]
    /\ hub = HubInit
    /\ now = 0
    /\ last = Idle
    /\ accepted = [s \in SessionIdsAll |-> <<>>]
    /\ zk = ZkInit
    /\ probe = NoProbe

\* The Hub call of an entry point may fail; the failing run is a different
\* outcome only when the run reaches the Hub.
WithHub(ok_run, failed_run) ==
    {ok_run} \cup (IF ok_run.hub # hub THEN {failed_run} ELSE {})

StartGame(session_id) ==
    /\ last.op = "idle"
    /\ \E pp \in PlayerPairs, pts \in Points, c1 \in Commits, c2 \in Commits :
         \E o \in WithHub(start_game(games[session_id], hub, session_id, pp[1], pp[2],
                                     pts, pts, c1, c2, TRUE),
                          start_game(games[session_id], hub, session_id, pp[1], pp[2],
                                     pts, pts, c1, c2, FALSE)) :
            /\ Commit(session_id, o)
            /\ last' = [Record("start_game", session_id, pp[1], o, NoTurn, NoBlob)
                          EXCEPT !.args = <<pp[1], pp[2]>>]
            /\ UNCHANGED accepted

RevealSeed(session_id) ==
    /\ last.op = "idle"
    /\ \E player \in Addresses, seed_secret \in Secrets :
         LET o == reveal_seed(games[session_id], hub, session_id, player, seed_secret)
         IN /\ Commit(session_id, o)
            /\ last' = [Record("reveal_seed", session_id, player, o, NoTurn, NoBlob)
                          EXCEPT !.args = <<seed_secret>>]
            /\ UNCHANGED accepted

BeginMatch(session_id) ==
    /\ last.op = "idle"
    /\ LET o == begin_match(games[session_id], hub, now, session_id)
       IN /\ Commit(session_id, o)
          /\ last' = Record("begin_match", session_id, "C", o, NoTurn, NoBlob)
          /\ UNCHANGED accepted

\* submit_turn with its inputs drawn from Candidates, or from BriefCandidates.
SubmitTurnFrom(session_id, brief) ==
    /\ last.op = "idle"
    /\ is_some(games[session_id]) => unwrap(games[session_id]).turn_index <= MaxTurns
    /\ \E player \in Addresses :
         \E c \in (IF brief THEN BriefCandidates(games[session_id], session_id, player)
                    ELSE Candidates(games[session_id], session_id, player)) :
            \E o \in WithHub(submit_turn(games[session_id], hub, now, session_id, player,
                                         c.blob, c.turn, TRUE),
                             submit_turn(games[session_id], hub, now, session_id, player,
                                         c.blob, c.turn, FALSE)) :
               /\ Commit(session_id, o)
               /\ last' = Record("submit_turn", session_id, player, o, c.turn, c.blob)
               /\ accepted' = IF o.result = "Ok"
                              THEN [accepted EXCEPT ![session_id] = Append(@, c)]
                              ELSE accepted

SubmitTurn(session_id) == SubmitTurnFrom(session_id, FALSE)

EndIfFinished(session_id) ==
    /\ last.op = "idle"
    /\ \E o \in WithHub(end_if_finished(games[session_id], hub, now, session_id, TRUE),
                        end_if_finished(games[session_id], hub, now, session_id, FALSE)) :
         /\ Commit(session_id, o)
         /\ last' = Record("end_if_finished", session_id, "C", o, NoTurn, NoBlob)
         /\ UNCHANGED accepted

\* The caller reads the result; the next call can be made.
Return ==
    /\ last.op # "idle"
    /\ last' = Idle
    /\ UNCHANGED <<games, hub, now, accepted, zk, probe>>

\* Ledger time passes between calls.  begin_match is the first operation to
\* read the timestamp and only adds GAME_SECONDS to it, so the clock of the
\* model starts with the match: time passes once a deadline exists.
Tick ==
    /\ last.op = "idle"
    /\ \E s \in SessionIdsAll : is_some(games[s]) /\ is_some(unwrap(games[s]).deadline_ts)
    /\ \E d \in TimeSteps :
         /\ now + d <= Horizon
         /\ now' = now + d
         /\ UNCHANGED <<games, hub, last, accepted, zk, probe>>

Next ==
    \/ \E s \in SessionIds : StartGame(s)
    \/ \E s \in SessionIds : RevealSeed(s)
    \/ \E s \in SessionIds : BeginMatch(s)
    \/ \E s \in SessionIds : SubmitTurn(s)
    \/ \E s \in SessionIds : EndIfFinished(s)
    \/ Return
    \/ Tick

Spec == Init /\ [][Next]_vars

\* ------------------------------------------------------------ no-path check
\* The no-path check on boards of its own: player1 stands on a cell of
\* NoPathCells of an Active game whose walls are any set of that cell's
\* neighbours outside the spawn zones, with or without one wall further away.
NoPathCells == {Pos(5, 5), Pos(6, 5), Pos(0, 5), Pos(MAP_W - 1, 0)}

FarWall == idx(8, 8)

Neighbours(p) == {Pos(p.x + 1, p.y), Pos(p.x - 1, p.y), Pos(p.x, p.y + 1), Pos(p.x, p.y - 1)}

InBounds(p) == p.x >= 0 /\ p.y >= 0 /\ p.x < MAP_W /\ p.y < MAP_H

WallChoices(p) ==
    {w \cup f : w \in SUBSET {idx(n.x, n.y) : n \in {m \in Neighbours(p) :
                                  InBounds(m) /\ ~near_spawn(m.x, m.y)}},
                f \in SUBSET {FarWall}}

\* The Active game that start_game, two reveals and begin_match leave, with
\* the given walls and player1 moved to p.
BoardGame(p, walls) ==
    LET g0 == unwrap(start_game(None, HubInit, 1, "A", "B", 50, 50,
                                commit_hash(1), commit_hash(1), TRUE).game)
        g1 == [g0 EXCEPT !.p1_seed_reveal = Some(1), !.p2_seed_reveal = Some(1)]
        g2 == unwrap(begin_match(Some(g1), HubInit, 0, 1).game)
    IN [g2 EXCEPT !.walls = walls, !.loot = @ \ walls, !.player1_pos = p,
                  !.fog_p1 = reveal_fog_4x4(@, p.x, p.y)]

InitNoPath ==
    /\ \E p \in NoPathCells : \E w \in WallChoices(p) :
          games = [s \in SessionIdsAll |-> IF s = 1 THEN Some(BoardGame(p, w)) ELSE None]
    /\ hub = hub_start_game(HubInit, 1)
    /\ now = 0
    /\ last = Idle
    /\ accepted = [s \in SessionIdsAll |-> <<>>]
    /\ zk = ZkInit
    /\ probe = NoProbe

\* The active player submits the no-path turn a client builds, with a sound proof.
SubmitNoPath ==
    /\ last.op = "idle"
    /\ is_some(games[1])
    /\ unwrap(games[1]).status = "Active"
    /\ LET game == unwrap(games[1])
           player == game.active_player
           c == Call(MakeTurn(game, 1, player, <<CurrentPos(game, player)>>, TRUE), "good")
       IN \E o \in WithHub(submit_turn(games[1], hub, now, 1, player, c.blob, c.turn, TRUE),
                           submit_turn(games[1], hub, now, 1, player, c.blob, c.turn, FALSE)) :
             /\ Commit(1, o)
             /\ last' = Record("submit_turn", 1, player, o, c.turn, c.blob)
             /\ accepted' = IF o.result = "Ok"
                            THEN [accepted EXCEPT ![1] = Append(@, c)]
                            ELSE accepted

NextNoPath ==
    \/ SubmitNoPath
    \/ Return

SpecNoPath == InitNoPath /\ [][NextNoPath]_vars

\* ------------------------------------------------------------ two sessions
\* Calls on the sessions of SessionIdsAll in any interleaving.
SubmitTurnBrief(session_id) == SubmitTurnFrom(session_id, TRUE)

NextSessions ==
    \/ \E s \in SessionIdsAll : StartGame(s)
    \/ \E s \in SessionIdsAll : RevealSeed(s)
    \/ \E s \in SessionIdsAll : BeginMatch(s)
    \/ \E s \in SessionIdsAll : SubmitTurnBrief(s)
    \/ \E s \in SessionIdsAll : EndIfFinished(s)
    \/ Return
    \/ Tick

SpecSessions == Init /\ [][NextSessions]_vars

\* ------------------------------------------------------------ properties
\* ------------------------------------------------------------ pure functions
\* A function of the engine or of lib.rs on inputs of its own: the contract is
\* at rest, probe holds the inputs, and the one step applies the function.
AtRest ==
    /\ games = [s \in SessionIdsAll |-> None]
    /\ hub = HubInit
    /\ now = 0
    /\ last = Idle
    /\ accepted = [s \in SessionIdsAll |-> <<>>]
    /\ zk = ZkInit

Probe(fn, in) == [fn |-> fn, in |-> in, out |-> None]

Applied(fn) == probe.fn = fn /\ is_some(probe.out)

Apply(fn, out) ==
    /\ probe.fn = fn
    /\ probe.out = None
    /\ probe' = [probe EXCEPT !.out = Some(out)]
    /\ UNCHANGED <<games, hub, now, last, accepted, zk>>

\* validate_path on every sequence of 1 .. MaxSteps + 2 cells of the corner
\* of the board that has its last two columns and rows and one column and one
\* row beyond them, with a wall on the corner cell, for every roll 1 .. MaxSteps.
PathCoords == (MAP_W - 2)..MAP_W

PathCorner == {Pos(x, y) : x \in PathCoords, y \in PathCoords}

RECURSIVE SeqsUpTo(_, _)
SeqsUpTo(S, n) ==
    IF n = 0 THEN {<<>>}
    ELSE LET shorter == SeqsUpTo(S, n - 1)
         IN shorter \cup {Append(q, e) : q \in {r \in shorter : Len(r) = n - 1}, e \in S}

PathInputs ==
    {[walls |-> w, path |-> p, rolled |-> r] :
        w \in {{idx(MAP_W - 1, MAP_H - 1)}},
        p \in SeqsUpTo(PathCorner, MaxSteps + 2) \ {<<>>},
        r \in 1..MaxSteps}

InitPath == AtRest /\ probe \in {Probe("validate_path", i) : i \in PathInputs}

ApplyValidatePath ==
    Apply("validate_path", validate_path(probe.in.walls, probe.in.path, probe.in.rolled))

SpecPath == InitPath /\ [][ApplyValidatePath]_vars

\* compute_hazard_hits on every sequence of 1 .. MaxSteps + 1 cells of
\* HazardCells, against cameras and lasers as generate_map makes them (radius
\* 2; a laser runs along a row or a column from 1 to MAP_W - 2 or MAP_H - 2).
HazardCells ==
    {Pos(0, 4), Pos(1, 4), Pos(5, 4), Pos(5, 6), Pos(7, 4), Pos(8, 4), Pos(MAP_W - 1, 4),
     Pos(5, 0)}

NearCamera == [x |-> 5, y |-> 4, radius |-> 2]

FarCamera == [x |-> 9, y |-> 9, radius |-> 2]

RowLaser == [x1 |-> 1, y1 |-> 4, x2 |-> MAP_W - 2, y2 |-> 4]

ColumnLaser == [x1 |-> 5, y1 |-> 1, x2 |-> 5, y2 |-> MAP_H - 2]

HazardInputs ==
    {[path |-> p, cameras |-> c, lasers |-> l] :
        p \in SeqsUpTo(HazardCells, MaxSteps + 1) \ {<<>>},
        c \in {<<>>, <<NearCamera>>, <<NearCamera, FarCamera>>, <<NearCamera, NearCamera>>},
        l \in {<<>>, <<RowLaser>>, <<RowLaser, ColumnLaser>>}}

InitHazards == AtRest /\ probe \in {Probe("compute_hazard_hits", i) : i \in HazardInputs}

ApplyHazardHits ==
    Apply("compute_hazard_hits",
          compute_hazard_hits(probe.in.path, probe.in.cameras, probe.in.lasers))

SpecHazards == InitHazards /\ [][ApplyHazardHits]_vars

\* generate_map on the session seeds that derive_session_seed gives for the
\* session ids of the model and the secrets 1 .. MapSecrets.
MapSecrets == 6

MapSeeds ==
    {derive_session_seed(s, s1, s2) : s \in SessionIdsAll, s1 \in 1..MapSecrets,
                                      s2 \in 1..MapSecrets}

InitMap == AtRest /\ probe \in {Probe("generate_map", seed) : seed \in MapSeeds}

ApplyGenerateMap == Apply("generate_map", generate_map(probe.in))

SpecMap == InitMap /\ [][ApplyGenerateMap]_vars

\* compute_state_hash on a record, again on the same record, and on the
\* record with one field given another value: the record start_game leaves
\* and an Active one, every field of Game, the values listed in FieldValues.
FieldValues ==
    [ player1 |-> <<"A", "C">>, player2 |-> <<"B", "C">>,
      player1_points |-> <<50, 60>>, player2_points |-> <<50, 60>>,
      status |-> <<"WaitingReveal", "Active", "Ended">>,
      p1_seed_commit |-> <<commit_hash(1), commit_hash(2)>>,
      p2_seed_commit |-> <<commit_hash(1), commit_hash(2)>>,
      p1_seed_reveal |-> <<None, Some(1), Some(2)>>,
      p2_seed_reveal |-> <<None, Some(1), Some(2)>>,
      session_seed |-> <<None, Some(derive_session_seed(1, 1, 1)),
                        Some(derive_session_seed(1, 1, 2))>>,
      started_at_ts |-> <<None, Some(0), Some(150)>>,
      deadline_ts |-> <<None, Some(GAME_SECONDS), Some(GAME_SECONDS + 150)>>,
      turn_index |-> <<0, 1>>,
      active_player |-> <<"A", "B">>,
      player1_pos |-> <<Pos(1, 1), Pos(2, 1), Pos(5, 5)>>,
      player2_pos |-> <<Pos(MAP_W - 2, MAP_H - 2), Pos(MAP_W - 3, MAP_H - 2)>>,
      player1_score |-> <<0, 1, -2>>, player2_score |-> <<0, 1, -2>>,
      walls |-> <<{}, {FarWall}, {FarWall, idx(5, 6)}>>,
      loot |-> <<{}, {idx(4, 4)}, {idx(4, 4), idx(6, 6)}>>,
      loot_collected |-> <<{}, {idx(4, 4)}>>,
      fog_p1 |-> <<{}, reveal_fog_4x4({}, 1, 1), reveal_fog_4x4({}, 5, 5)>>,
      fog_p2 |-> <<{}, reveal_fog_4x4({}, MAP_W - 2, MAP_H - 2)>>,
      cameras |-> <<<<>>, <<NearCamera>>>>, lasers |-> <<<<>>, <<RowLaser>>>>,
      winner |-> <<None, Some("A"), Some("B")>>,
      last_proof_id |-> <<None, Some(proof_id_of(NoBlob))>> ]

HashGames ==
    {unwrap(start_game(None, HubInit, 1, "A", "B", 50, 50,
                       commit_hash(1), commit_hash(1), TRUE).game),
     BoardGame(Pos(5, 5), {FarWall})}

GameFields == DOMAIN FieldValues

HashInputs ==
    UNION {{[session_id |-> 1, game |-> g, field |-> f, choice |-> k] :
               k \in {n \in 1..Len(FieldValues[f]) : FieldValues[f][n] # g[f]}} :
           g \in HashGames, f \in GameFields}

InitHash == AtRest /\ probe \in {Probe("compute_state_hash", i) : i \in HashInputs}

ApplyStateHash ==
    Apply("compute_state_hash",
          [first |-> compute_state_hash(probe.in.session_id, probe.in.game),
           again |-> compute_state_hash(probe.in.session_id, probe.in.game),
           mutated |-> compute_state_hash(probe.in.session_id,
                           [probe.in.game EXCEPT ![probe.in.field] =
                               FieldValues[probe.in.field][probe.in.choice]])])

SpecHash == InitHash /\ [][ApplyStateHash]_vars

\* parse_and_validate_proof_blob on blobs shorter than the header, of the
\* lengths the supported counts give with 0, 1 or 2 public inputs, and of
\* lengths beside them, with header bytes that spell the supported counts,
\* their neighbours and counts with a high byte set.
BlobFieldCounts == {0, 1, 423, 424, 425, 426, 430, 440, 441, 442, 456, 457, 458, 459}

BlobLengths ==
    0..5 \cup {32}
    \cup {PROOF_BLOB_HEADER_BYTES + n * FIELD_SIZE_BYTES + d : n \in {424, 425, 441, 457, 458}, d \in {0, 1}}

BlobHeads ==
    {<<b0, b1, n \div 256, n % 256>> : b0 \in {0, 1}, b1 \in {0, 1}, n \in BlobFieldCounts}

BlobExpected == 0..2

BlobInputs ==
    {[blob |-> [len |-> l, head |-> SubSeq(h, 1, IF l < 4 THEN l ELSE 4)], expected |-> e] :
        l \in BlobLengths, h \in BlobHeads, e \in BlobExpected}

InitBlob == AtRest /\ probe \in {Probe("parse_and_validate_proof_blob", i) : i \in BlobInputs}

ApplyParseBlob ==
    Apply("parse_and_validate_proof_blob",
          parse_and_validate_proof_blob(probe.in.blob, probe.in.expected))

SpecBlob == InitBlob /\ [][ApplyParseBlob]_vars

\* exists_any_path_len from a cell inside the board, on its left edge, in its
\* top right corner and beyond its right edge, with walls on any of the
\* cell and its in-bounds neighbours, for 0 .. MaxSteps + 1 steps.
AnyPathStarts == {Pos(5, 5), Pos(0, 5), Pos(MAP_W - 1, 0), Pos(MAP_W, 5)}

AnyPathWalls(p) ==
    SUBSET {idx(n.x, n.y) : n \in {m \in Neighbours(p) \cup {p} : InBounds(m)}}

AnyPathInputs ==
    {[walls |-> w, start |-> p, steps |-> n] :
        p \in AnyPathStarts, w \in UNION {AnyPathWalls(q) : q \in AnyPathStarts},
        n \in 0..(MaxSteps + 1)}

InitAnyPath == AtRest /\ probe \in {Probe("exists_any_path_len", i) : i \in AnyPathInputs}

ApplyAnyPath ==
    Apply("exists_any_path_len",
          exists_any_path_len(probe.in.walls, probe.in.start, probe.in.steps))

SpecAnyPath == InitAnyPath /\ [][ApplyAnyPath]_vars

\* get_player_view on the records of two sessions: an Active game with
\* player1 on its spawn cell or moved to (5, 3), and the same game with walls
\* added on some cells of ViewCells and loot put on or taken from others.  Of
\* ViewCells the first is in player1's fog from the start, the second in
\* player2's, the third in player1's once it stands on (5, 3), the last in
\* nobody's.
ViewCells == {idx(3, 3), idx(8, 8), idx(6, 3), idx(6, 8)}

ViewBoards == {BoardGame(p, w) : p \in {Pos(1, 1), Pos(5, 3)}, w \in {{idx(4, 1)}, {idx(4, 1), idx(3, 3)}}}

Flip(bits, cells) == (bits \ cells) \cup (cells \ bits)

ViewInputs ==
    {[a |-> g,
      b |-> [g EXCEPT !.walls = @ \cup W, !.loot = Flip(@, L) \ W],
      player |-> player] :
        g \in ViewBoards, W \in SUBSET ViewCells, L \in SUBSET ViewCells,
        player \in Addresses}

InitView == AtRest /\ probe \in {Probe("get_player_view", i) : i \in ViewInputs}

ApplyGetPlayerView ==
    Apply("get_player_view",
          [a |-> get_player_view(Some(probe.in.a), 1, probe.in.player),
           b |-> get_player_view(Some(probe.in.b), 2, probe.in.player)])

SpecView == InitView /\ [][ApplyGetPlayerView]_vars

\* ------------------------------------------------------------ verifier calls
\* Calls on the verifier contract in any order: set_vk by the admin or by
\* someone else, with a key of ZkKeys, and verify_proof_with_stored_vk with a
\* blob of ZkBlobs.  probe holds the call just made and what it returned.
ZkAdmin == "C"

ZkKey(len, n_ic, circuit) == [len |-> len, n_ic |-> n_ic, circuit |-> circuit]

\* Two keys for one public input, one for two, one too short to hold its
\* points, and one too short to hold a count.
ZkKeys ==
    { ZkKey(452 + 2 * 64, 2, 1), ZkKey(452 + 2 * 64, 2, 2), ZkKey(452 + 3 * 64, 3, 3),
      ZkKey(452 + 64, 2, 1), ZkKey(7, 0, 0) }

ZkBlob(n_pub, len, pi_hash, proof_for) ==
    [n_pub |-> n_pub, len |-> len, pi_hash |-> pi_hash, proof_for |-> proof_for]

\* Proofs of public input 1 and of 2 for the first circuit, of 1 for the
\* second; blobs with the count 2 and the count 0 around a proof made for the
\* first circuit; a blob cut short; proof points made for nothing.
ZkBlobs ==
    { ZkBlob(1, 292, 1, <<1, 1>>), ZkBlob(1, 292, 2, <<1, 2>>), ZkBlob(1, 292, 1, <<2, 1>>),
      ZkBlob(2, 324, 1, <<1, 1>>), ZkBlob(0, 260, 1, <<1, 1>>),
      ZkBlob(2, 324, 1, <<3, 1>>),
      ZkBlob(1, 100, 1, <<1, 1>>), ZkBlob(1, 292, 1, <<0, 0>>) }

ProofIds == {proof_id_of(b) : b \in ZkBlobs}

ZkCall(fn, in, o) == [fn |-> fn, in |-> in, out |-> Some([result |-> o.result, value |-> o.value])]

SetVk ==
    \E caller \in {ZkAdmin, "A"}, vk \in ZkKeys :
       LET o == set_vk(zk, caller, ZkAdmin, vk)
       IN /\ zk' = frame_exit(o.result, zk, o.zk)
          /\ probe' = ZkCall("set_vk", [caller |-> caller, vk |-> vk], o)
          /\ UNCHANGED <<games, hub, now, last, accepted>>

VerifyProofWithStoredVk ==
    \E proof_blob \in ZkBlobs :
       LET o == verify_proof_with_stored_vk(zk, proof_blob)
       IN /\ zk' = frame_exit(o.result, zk, o.zk)
          /\ probe' = ZkCall("verify_proof_with_stored_vk", proof_blob, o)
          /\ UNCHANGED <<games, hub, now, last, accepted>>

InitVerifier == AtRest /\ probe = NoProbe

NextVerifier ==
    \/ SetVk
    \/ VerifyProofWithStoredVk

SpecVerifier == InitVerifier /\ [][NextVerifier]_vars

\* ------------------------------------------------------------ expiry
\* One session with brief turns, under the scheduling that the end of a match
\* by expiry relies on: ledger time keeps advancing, every call returns, and
\* the end check keeps being invoked and keeps returning (an invocation that
\* traps in the Hub call may happen any number of times in between).
NextExpiry ==
    \/ StartGame(1)
    \/ RevealSeed(1)
    \/ BeginMatch(1)
    \/ SubmitTurnBrief(1)
    \/ EndIfFinished(1)
    \/ Return
    \/ Tick

EndCheckReturns(session_id) == EndIfFinished(session_id) /\ last'.result = "Ok"

FairExpiry ==
    /\ SF_vars(Tick)
    /\ WF_vars(Return)
    /\ SF_vars(EndCheckReturns(1))

SpecExpiry == Init /\ [][NextExpiry]_vars /\ FairExpiry

\* ------------------------------------------------------------ views
\* The calls of Next and the read-only simulate_state_hash_after, asked about
\* turns a player builds (moves, a no-path turn, turns with one field changed)
\* and about the moves with the digest the player's own prover computes from
\* the rules (the move applied to its copy of the record), by the active
\* player while fewer than MaxTurns turns are accepted.  The digest returned
\* is kept in args.  The view does not read the ledger timestamp and a turn
\* sent at or after the deadline is never accepted, so the calls are made
\* before the deadline: time does not pass.
ProverDigest(game, session_id, t) ==
    compute_state_hash(session_id,
        apply_move(game, t.player, t, game.loot_collected \cup t.loot_collected_mask_delta,
                   None))

ViewTurns(gopt, session_id, player) ==
    IF gopt = None \/ unwrap(gopt).status # "Active" THEN {NoTurn}
    ELSE IF unwrap(gopt).turn_index >= MaxTurns \/ player # unwrap(gopt).active_player
    THEN {NoTurn}
    ELSE LET game == unwrap(gopt)
             cur == CurrentPos(game, player)
             built == {MakeTurn(game, session_id, player, p, FALSE) :
                          p \in RunPaths(cur) \cup TeleportPaths(cur)
                                   \cup {LPath(cur), BackPath(cur), OutPath(cur)}}
             sent == built
                     \cup {MakeTurn(game, session_id, player, <<cur>>, TRUE)}
                     \cup {Tamper(game, session_id, t, k) :
                              t \in {MakeTurn(game, session_id, player, RunX(cur, 1), FALSE)},
                              k \in {"score_delta", "loot_drop", "end_pos", "player"}}
         IN sent \cup {[t EXCEPT !.state_hash_after = ProverDigest(game, session_id, t)] :
                          t \in built}

SimulateStateHashAfter(session_id) ==
    /\ last.op = "idle"
    /\ \E player \in Addresses : \E t \in ViewTurns(games[session_id], session_id, player) :
         LET v == simulate_state_hash_after(games[session_id], session_id, t)
             o == [result |-> IF v = None THEN "Err" ELSE "Ok", verifier_called |-> FALSE]
         IN last' = [Record("simulate_state_hash_after", session_id, player, o, t,
                            MakeBlob(t, "good"))
                       EXCEPT !.args = v]
    /\ UNCHANGED <<games, hub, now, accepted, zk, probe>>

NextViews ==
    \/ \E s \in SessionIds : StartGame(s)
    \/ \E s \in SessionIds : RevealSeed(s)
    \/ \E s \in SessionIds : BeginMatch(s)
    \/ \E s \in SessionIds : SubmitTurn(s)
    \/ \E s \in SessionIds : EndIfFinished(s)
    \/ \E s \in SessionIds : SimulateStateHashAfter(s)
    \/ Return

SpecViews == Init /\ [][NextViews]_vars

Rank(status) ==
    CASE status = "WaitingReveal" -> 0
      [] status = "Active" -> 1
      [] status = "Ended" -> 2

TurnReturned == last.op = "submit_turn"

TurnAccepted == last.op = "submit_turn" /\ last.result = "Ok"

GameBefore == unwrap(last.before)

GameAfter == unwrap(games[last.session_id])

PathCells(path) == {idx(path[i].x, path[i].y) : i \in 1..Len(path)}

C2_AcceptedTurnChainsDigest ==
    TurnAccepted =>
        /\ get_state_hash(games[last.session_id], last.session_id)
              = Some(last.turn.state_hash_after)
        /\ get_state_hash(last.before, last.session_id)
              = Some(last.turn.state_hash_before)

C2_Witness ==
    /\ TurnAccepted
    /\ last.turn.state_hash_after # last.turn.state_hash_before
    /\ GameAfter.turn_index = 2

\* C3: an accepted submit_turn raises turn_index by exactly 1 and makes the
\* other player the active one; in every Active state player1 is the active
\* player exactly when turn_index is even.
C3_TurnsAlternate ==
    /\ TurnAccepted =>
          /\ GameAfter.turn_index = GameBefore.turn_index + 1
          /\ GameBefore.active_player = last.caller
          /\ GameAfter.active_player # GameBefore.active_player
          /\ GameAfter.active_player \in {GameAfter.player1, GameAfter.player2}
    /\ \A s \in SessionIdsAll :
          (is_some(games[s]) /\ unwrap(games[s]).status = "Active") =>
              LET g == unwrap(games[s])
              IN (g.active_player = g.player1) <=> (g.turn_index % 2 = 0)

\* Two turns accepted, the match still on: player1 is to move again.
C3_Witness ==
    /\ TurnAccepted
    /\ GameAfter.status = "Active"
    /\ GameAfter.turn_index = 2
    /\ GameAfter.active_player = GameAfter.player1

\* C4: the status of a session never moves backwards: a stored record stays
\* stored and WaitingReveal < Active < Ended never decreases.
C4_StatusNeverMovesBack ==
    [][\A s \in SessionIdsAll :
          is_some(games[s]) =>
              /\ is_some(games'[s])
              /\ Rank(unwrap(games[s]).status) <= Rank(unwrap(games'[s]).status)]_vars

\* start_game and begin_match were refused on a session that has ended.
C4_Witness ==
    /\ last.op \in {"start_game", "begin_match"}
    /\ last.result \in {"GameAlreadyStarted", "InvalidStatus"}
    /\ is_some(games[last.session_id])
    /\ GameAfter.status = "Ended"

\* C5: a submit_turn whose turn_index or state_hash_before differs from the
\* stored state's is rejected and changes nothing; so is a call that was
\* accepted before.
C5_StaleTurnRejected ==
    (/\ TurnReturned
     /\ is_some(last.before)
     /\ \/ last.turn.turn_index # GameBefore.turn_index
        \/ last.turn.state_hash_before # compute_state_hash(last.session_id, GameBefore)
        \/ last.replay)
    => (last.result # "Ok" /\ games[last.session_id] = last.before)

\* The mover of an accepted turn sends it again when it is their turn again.
C5_Witness ==
    /\ TurnReturned
    /\ last.replay
    /\ is_some(last.before)
    /\ GameBefore.status = "Active"
    /\ GameBefore.active_player = last.caller
    /\ last.turn.player = last.caller
    /\ last.result = "InvalidTurnData"

\* The checks of submit_turn that need no Verifier, on the record the call found.
LocalChecks(game, session_id, player, proof_blob, public_turn) ==
    LET loot_delta == IF public_turn.no_path_flag THEN zero_bitset
                      ELSE collect_loot_delta_from_path(game.loot, game.loot_collected,
                                                        public_turn.path)
        m == mark_loot(game.loot, game.loot_collected, loot_delta)
        hits == IF public_turn.no_path_flag
                THEN [camera_hits |-> 0, laser_hits |-> 0]
                ELSE compute_hazard_hits(public_turn.path, game.cameras, game.lasers)
    IN /\ turn_binding_checks(game, session_id, player, proof_blob, public_turn) = "pass"
       /\ move_checks(game, player, public_turn) = "pass"
       /\ m.result = "pass"
       /\ reconcile(public_turn, loot_delta, m.loot_points, hits) = "pass"

\* C6: submit_turn calls the Verifier only for a turn that passes every local
\* check, the loot delta, the hazard-hit counts and the score delta included.
C6_VerifierAfterLocalChecks ==
    (TurnReturned /\ last.verifier_called) =>
        LocalChecks(GameBefore, last.session_id, last.caller, last.blob, last.turn)

\* A turn reached the Verifier and was rejected afterwards for its score delta.
C6_Witness ==
    /\ TurnReturned
    /\ last.verifier_called
    /\ last.result = "InvalidScoreDelta"

\* No single step is possible from p: each neighbour is out of bounds or a wall.
Boxed(walls, p) ==
    \A n \in Neighbours(p) : ~InBounds(n) \/ idx(n.x, n.y) \in walls

C8_ScoreDeltaReconciled ==
    TurnAccepted =>
        LET t == last.turn
            fresh == PathCells(t.path) \cap (GameBefore.loot \ GameBefore.loot_collected)
            hits == compute_hazard_hits(t.path, GameBefore.cameras, GameBefore.lasers)
        IN /\ t.loot_collected_mask_delta = fresh
           /\ t.camera_hits = hits.camera_hits
           /\ t.laser_hits = hits.laser_hits
           /\ t.score_delta = Cardinality(fresh) - 1 * hits.camera_hits - 2 * hits.laser_hits
           /\ IF last.caller = GameBefore.player1
              THEN /\ GameAfter.player1_score = GameBefore.player1_score + t.score_delta
                   /\ GameAfter.player2_score = GameBefore.player2_score
              ELSE /\ GameAfter.player2_score = GameBefore.player2_score + t.score_delta
                   /\ GameAfter.player1_score = GameBefore.player1_score

\* An accepted turn that collected loot and was seen by a camera.
C8_Witness ==
    /\ TurnAccepted
    /\ last.turn.loot_collected_mask_delta # {}
    /\ last.turn.camera_hits > 0
    /\ last.turn.score_delta # 0

\* C9: loot_collected is a subset of loot in every state, and no step removes
\* a bit from loot_collected.
C9_LootCollectedGrowsWithinLoot ==
    /\ [](\A s \in SessionIdsAll :
            is_some(games[s]) => unwrap(games[s]).loot_collected \subseteq unwrap(games[s]).loot)
    /\ [][\A s \in SessionIdsAll :
            is_some(games[s]) =>
                /\ is_some(games'[s])
                /\ unwrap(games[s]).loot_collected \subseteq unwrap(games'[s]).loot_collected]_vars

\* Loot was collected, and a later accepted turn that collected nothing kept it.
C9_Witness ==
    /\ TurnAccepted
    /\ last.turn.loot_collected_mask_delta = {}
    /\ GameBefore.loot_collected # {}
    /\ GameAfter.loot_collected = GameBefore.loot_collected

\* C10: a submit_turn whose declared loot delta contains a bit already set in
\* loot_collected is rejected.
C10_RecollectionRejected ==
    (/\ TurnReturned
     /\ is_some(last.before)
     /\ last.turn.loot_collected_mask_delta \cap GameBefore.loot_collected # {})
    => last.result # "Ok"

\* Such a turn, well-formed otherwise, went as far as the comparison of the
\* declared delta with the computed one.
C10_Witness ==
    /\ TurnReturned
    /\ is_some(last.before)
    /\ last.turn.loot_collected_mask_delta \cap GameBefore.loot_collected # {}
    /\ last.verifier_called
    /\ last.result = "InvalidTurnData"

\* ------------------------------------------------------------ ending a session
\* A step that is a call of `op`.
Called(op) == last.op = "idle" /\ last'.op = op

\* The clock test of submit_turn and end_if_finished on a record with a deadline.
DeadlineReached(game, ts) == is_some(game.deadline_ts) /\ ts >= unwrap(game.deadline_ts)

\* C11: a submit_turn call on an Active session made when the ledger timestamp
\* is at or after the deadline is rejected, and the rejection is TimerExpired.
C11_TurnAtDeadlineTimerExpired ==
    ( /\ TurnReturned
      /\ is_some(last.before)
      /\ GameBefore.status = "Active"
      /\ DeadlineReached(GameBefore, now) )
    => last.result = "TimerExpired"

\* A turn sent at the deadline whose forced end check reached a failing Hub.
C11_Witness ==
    /\ TurnReturned
    /\ is_some(last.before)
    /\ GameBefore.status = "Active"
    /\ DeadlineReached(GameBefore, now)
    /\ last.result = "Panic"

\* C12: every Ended session records as winner the player with the strictly
\* higher score, player1 on equal scores, and the Hub holds the matching
\* player1_won.
C12_EndedWinnerByScore ==
    \A s \in SessionIdsAll :
       (is_some(games[s]) /\ unwrap(games[s]).status = "Ended") =>
          LET g == unwrap(games[s]) IN
          /\ g.player1_score > g.player2_score => g.winner = Some(g.player1)
          /\ g.player2_score > g.player1_score => g.winner = Some(g.player2)
          /\ g.player1_score = g.player2_score => g.winner = Some(g.player1)
          /\ hub[s].player1_won = Some(g.winner = Some(g.player1))

\* A session that ended on equal scores after a turn was played.
C12_Witness ==
    \E s \in SessionIdsAll :
       /\ is_some(games[s])
       /\ unwrap(games[s]).status = "Ended"
       /\ unwrap(games[s]).turn_index > 0
       /\ unwrap(games[s]).player1_score = unwrap(games[s]).player2_score
       /\ unwrap(games[s]).winner = Some(unwrap(games[s]).player1)

\* C13: when the Hub's end_game fails during end_if_finished, the session's
\* record is nevertheless Ended with its winner recorded.
C13_HubFailureKeepsEnded ==
    (last.op = "end_if_finished" /\ last.result = "Panic") =>
       /\ is_some(games[last.session_id])
       /\ GameAfter.status = "Ended"
       /\ is_some(GameAfter.winner)

\* end_if_finished past the deadline of an Active session, the Hub failing:
\* the record is still Active.
C13_Witness ==
    /\ last.op = "end_if_finished"
    /\ last.result = "Panic"
    /\ is_some(last.before)
    /\ DeadlineReached(GameBefore, now)
    /\ GameAfter.status = "Active"
    /\ GameAfter.winner = None

\* C14: end_if_finished on an Ended session returns Ok, changes no record and
\* makes no Hub call; the Hub receives at most one end_game per session.
C14_EndIsIdempotent ==
    /\ [](\A s \in SessionIdsAll : hub[s].end_calls <= 1)
    /\ [][ ( /\ Called("end_if_finished")
             /\ is_some(games[last'.session_id])
             /\ unwrap(games[last'.session_id]).status = "Ended" )
           => (last'.result = "Ok" /\ games' = games /\ hub' = hub) ]_vars

\* end_if_finished on a session that ended before, its deadline reached.
C14_Witness ==
    /\ last.op = "end_if_finished"
    /\ last.result = "Ok"
    /\ is_some(last.before)
    /\ GameBefore.status = "Ended"
    /\ DeadlineReached(GameBefore, now)
    /\ hub[last.session_id].end_calls = 1

\* C15: end_if_finished on a session whose deadline is not reached and whose
\* loot is not all collected returns Ok, changes no record and makes no Hub
\* call.
C15_EndCheckNoOp ==
    [][ ( /\ Called("end_if_finished")
         /\ is_some(games[last'.session_id])
         /\ ~DeadlineReached(unwrap(games[last'.session_id]), now)
         /\ ~is_full_collection(unwrap(games[last'.session_id]).loot,
                                unwrap(games[last'.session_id]).loot_collected) )
       => (last'.result = "Ok" /\ games' = games /\ hub' = hub) ]_vars

\* end_if_finished on an Active session after a turn, before the deadline.
C15_Witness ==
    /\ last.op = "end_if_finished"
    /\ last.result = "Ok"
    /\ is_some(last.before)
    /\ GameBefore.status = "Active"
    /\ GameBefore.turn_index > 0
    /\ ~DeadlineReached(GameBefore, now)
    /\ ~is_full_collection(GameBefore.loot, GameBefore.loot_collected)
    /\ games[last.session_id] = last.before

\* C16: no step changes any field of a record whose status is Ended, whatever
\* the operation (start_game with the same id, reveal_seed, begin_match,
\* submit_turn, end_if_finished).
C16_EndedRecordImmutable ==
    [][ \A s \in SessionIdsAll :
           (is_some(games[s]) /\ unwrap(games[s]).status = "Ended") => games'[s] = games[s]
      ]_vars

\* reveal_seed by a player of an Ended session who never revealed, with the
\* secret of their commitment.
C16_Witness ==
    /\ last.op = "reveal_seed"
    /\ is_some(last.before)
    /\ GameBefore.status = "Ended"
    /\ last.caller = GameBefore.player1
    /\ GameBefore.p1_seed_reveal = None
    /\ commit_hash(last.args[1]) = GameBefore.p1_seed_commit
    /\ last.result = "InvalidStatus"
    /\ games[last.session_id] = last.before

\* ------------------------------------------------------------ independence
\* C17: a call on one session changes neither the record of any other session
\* nor what the Hub holds for it.
C17_OtherSessionsUntouched ==
    [][ \A s \in SessionIdsAll :
           s # last'.session_id => (games'[s] = games[s] /\ hub'[s] = hub[s]) ]_vars

\* A turn accepted on session 1 while session 2 is in the middle of its match.
C17_Witness ==
    /\ TurnAccepted
    /\ last.session_id = 1
    /\ is_some(games[2])
    /\ unwrap(games[2]).status = "Active"
    /\ unwrap(games[2]).turn_index = 1

\* ------------------------------------------------------------ set-up calls
\* C18: on an existing session reveal_seed returns Ok exactly when the status
\* is WaitingReveal, the caller is player1 or player2, that player has no
\* reveal stored and commit_hash(secret) is that player's commitment; any
\* other call returns InvalidStatus, NotPlayer, SeedAlreadyRevealed or
\* InvalidSeedReveal and leaves the record as it was.
C18_RevealSeedGuards ==
    (last.op = "reveal_seed" /\ is_some(last.before)) =>
       LET g == GameBefore
           is_p1 == last.caller = g.player1
           is_p2 == last.caller = g.player2
           revealed == IF is_p1 THEN is_some(g.p1_seed_reveal) ELSE is_some(g.p2_seed_reveal)
           commitment == IF is_p1 THEN g.p1_seed_commit ELSE g.p2_seed_commit
           accepted_case == /\ g.status = "WaitingReveal"
                            /\ (is_p1 \/ is_p2)
                            /\ ~revealed
                            /\ commit_hash(last.args[1]) = commitment
       IN /\ (last.result = "Ok") <=> accepted_case
          /\ last.result # "Ok" =>
                /\ last.result \in {"InvalidStatus", "NotPlayer", "SeedAlreadyRevealed",
                                     "InvalidSeedReveal"}
                /\ games[last.session_id] = last.before

\* A player of a WaitingReveal session reveals, for the first time, a secret
\* that is not the one committed to.
C18_Witness ==
    /\ last.op = "reveal_seed"
    /\ is_some(last.before)
    /\ GameBefore.status = "WaitingReveal"
    /\ last.caller = GameBefore.player2
    /\ GameBefore.p2_seed_reveal = None
    /\ commit_hash(last.args[1]) # GameBefore.p2_seed_commit
    /\ last.result = "InvalidSeedReveal"

\* C19: on an existing session begin_match returns Ok exactly when the status
\* is WaitingReveal and both seeds are revealed; it then leaves the session
\* Active with the session seed set, the deadline set (GAME_SECONDS after the
\* call's timestamp), player1 to move and turn_index 0; any other call returns
\* InvalidStatus or SeedsNotReady and leaves the record as it was.
C19_BeginMatchGuards ==
    (last.op = "begin_match" /\ is_some(last.before)) =>
       LET g == GameBefore
           ready == /\ g.status = "WaitingReveal"
                    /\ is_some(g.p1_seed_reveal)
                    /\ is_some(g.p2_seed_reveal)
       IN /\ (last.result = "Ok") <=> ready
          /\ last.result = "Ok" =>
                /\ GameAfter.status = "Active"
                /\ is_some(GameAfter.session_seed)
                /\ GameAfter.deadline_ts = Some(now + GAME_SECONDS)
                /\ GameAfter.active_player = GameAfter.player1
                /\ GameAfter.turn_index = 0
          /\ last.result # "Ok" =>
                /\ last.result \in {"InvalidStatus", "SeedsNotReady"}
                /\ games[last.session_id] = last.before

\* begin_match accepted on a session both of whose seeds were revealed.
C19_Witness ==
    /\ last.op = "begin_match"
    /\ last.result = "Ok"
    /\ is_some(last.before)
    /\ GameBefore.status = "WaitingReveal"
    /\ GameAfter.status = "Active"

C25_FogOnlyGrows ==
    [][\A s \in SessionIdsAll :
          (is_some(games[s]) /\ is_some(games'[s])) =>
             /\ unwrap(games[s]).fog_p1 \subseteq unwrap(games'[s]).fog_p1
             /\ unwrap(games[s]).fog_p2 \subseteq unwrap(games'[s]).fog_p2]_vars

\* An accepted turn that takes the mover far enough for a cell revealed before
\* to lie outside the window around the new position; the cell stays revealed.
C25_Witness ==
    /\ TurnAccepted
    /\ \E b \in GameBefore.fog_p1 :
          /\ b \notin reveal_fog_4x4({}, GameAfter.player1_pos.x, GameAfter.player1_pos.y)
          /\ b \in GameAfter.fog_p1
    /\ GameAfter.fog_p1 # GameBefore.fog_p1

\* C29: for an Active session get_expected_roll(player) returns the value in
\* 1..6 that roll_value derives from the session seed, the current turn_index
\* and the player's tag (1 for player1, 2 for player2), and submit_turn accepts
\* a turn only if its rolled_value equals that value.
C29_RollIsExpectedRoll ==
    /\ \A s \in SessionIdsAll :
          (is_some(games[s]) /\ unwrap(games[s]).status = "Active") =>
             LET game == unwrap(games[s]) IN
             \A tag \in 1..2 :
                LET r == get_expected_roll(games[s], s,
                                           IF tag = 1 THEN game.player1 ELSE game.player2)
                IN /\ r.result = "Ok"
                   /\ r.value \in 1..6
                   /\ r.value = roll_value(unwrap(game.session_seed), game.turn_index, tag)
    /\ TurnAccepted =>
          last.turn.rolled_value =
             get_expected_roll(last.before, last.session_id, last.caller).value

\* The active player's turn with a valid one-step path and every other field
\* as the client builds it, but another rolled_value: InvalidMoveLength.
C29_Witness ==
    /\ TurnReturned
    /\ is_some(last.before)
    /\ GameBefore.status = "Active"
    /\ last.caller = GameBefore.active_player
    /\ get_expected_roll(last.before, last.session_id, last.caller).result = "Ok"
    /\ last.turn.rolled_value \in 1..6
    /\ last.turn.rolled_value #
          get_expected_roll(last.before, last.session_id, last.caller).value
    /\ Len(last.turn.path) = 2
    /\ validate_path(GameBefore.walls, last.turn.path, 1)
    /\ last.result = "InvalidMoveLength"
    /\ games[last.session_id] = last.before

StatusIs(s, status) == is_some(games[s]) /\ unwrap(games[s]).status = status

C22_ValidatePathExactly ==
    Applied("validate_path") =>
       LET path == probe.in.path
           walls == probe.in.walls
           rolled == probe.in.rolled
           accepts == unwrap(probe.out)
           diagonal(i) == path[i + 1].x # path[i].x /\ path[i + 1].y # path[i].y
       IN /\ accepts <=>
                /\ Len(path) >= 2
                /\ Len(path) <= rolled + 1
                /\ \A i \in 1..Len(path) :
                      InBounds(path[i]) /\ idx(path[i].x, path[i].y) \notin walls
                /\ \A i \in 1..(Len(path) - 1) :
                      abs_diff(path[i + 1].x, path[i].x)
                         + abs_diff(path[i + 1].y, path[i].y) = 1
          /\ Len(path) = 1 => ~accepts
          /\ Len(path) = rolled + 2 => ~accepts
          /\ (\E i \in 1..(Len(path) - 1) : diagonal(i)) => ~accepts

\* A path of rolled + 2 cells, all in bounds, none a wall, each one step from
\* the one before: refused.
C22_Witness ==
    /\ Applied("validate_path")
    /\ Len(probe.in.path) = probe.in.rolled + 2
    /\ validate_path(probe.in.walls, probe.in.path, probe.in.rolled + 1)
    /\ unwrap(probe.out) = FALSE

\* The cells within Manhattan distance radius of a camera, and the cells of a
\* laser's axis-aligned segment.
CameraZone(camera) ==
    {idx(x, y) : <<x, y>> \in
        {c \in (0..(MAP_W - 1)) \X (0..(MAP_H - 1)) :
            abs_diff(c[1], camera.x) + abs_diff(c[2], camera.y) <= camera.radius}}

LaserCells(laser) == {idx(x, y) : x \in laser.x1..laser.x2, y \in laser.y1..laser.y2}

\* C23: compute_hazard_hits returns the number of cameras that have at least
\* one path cell within Manhattan distance <= radius and the number of lasers
\* that have at least one path cell on their segment; each hazard counts at
\* most once however many path cells meet it.
C23_HazardHitsCountHazards ==
    Applied("compute_hazard_hits") =>
       LET cells == PathCells(probe.in.path)
           cameras == probe.in.cameras
           lasers == probe.in.lasers
           hits == unwrap(probe.out)
       IN /\ hits.camera_hits =
                Cardinality({ci \in 1..Len(cameras) : cells \cap CameraZone(cameras[ci]) # {}})
          /\ hits.laser_hits =
                Cardinality({li \in 1..Len(lasers) : cells \cap LaserCells(lasers[li]) # {}})
          /\ hits.camera_hits <= Len(cameras)
          /\ hits.laser_hits <= Len(lasers)

\* Two cells of the path within reach of the one camera and two on the one
\* laser: one hit each.
C23_Witness ==
    /\ Applied("compute_hazard_hits")
    /\ Len(probe.in.cameras) = 1
    /\ Len(probe.in.lasers) = 1
    /\ Cardinality(PathCells(probe.in.path) \cap CameraZone(probe.in.cameras[1])) >= 2
    /\ Cardinality(PathCells(probe.in.path) \cap LaserCells(probe.in.lasers[1])) >= 2
    /\ unwrap(probe.out) = [camera_hits |-> 1, laser_hits |-> 1]

\* The cells of the two 3x3 spawn safe zones.
SpawnZones ==
    {idx(x, y) : <<x, y>> \in {c \in (0..(MAP_W - 1)) \X (0..(MAP_H - 1)) :
                                  \/ (c[1] \in 0..2 /\ c[2] \in 0..2)
                                  \/ (c[1] \in (MAP_W - 3)..(MAP_W - 1)
                                        /\ c[2] \in (MAP_H - 3)..(MAP_H - 1))}}

\* C26: for every seed generate_map places at most 18 walls and at most 24
\* loot items, places no wall and no loot in either spawn safe zone, and
\* places no loot on a wall cell.
C26_WallsAndLootPlacement ==
    Applied("generate_map") =>
       LET map == unwrap(probe.out)
       IN /\ Cardinality(map.walls) <= 18
          /\ Cardinality(map.loot) <= 24
          /\ map.walls \cap SpawnZones = {}
          /\ map.loot \cap SpawnZones = {}
          /\ map.loot \cap map.walls = {}

\* A seed whose draws fill both budgets: 18 walls and 24 loot items.
C26_Witness ==
    /\ Applied("generate_map")
    /\ Cardinality(unwrap(probe.out).walls) = 18
    /\ Cardinality(unwrap(probe.out).loot) = 24

CameraCells(map) == {idx(map.cameras[i].x, map.cameras[i].y) : i \in 1..Len(map.cameras)}

AllLaserCells(map) == UNION {LaserCells(map.lasers[i]) : i \in 1..Len(map.lasers)}

\* C27: for every seed every generated camera and every cell of every
\* generated laser lies outside the spawn safe zones, and no generated object
\* (wall, loot, camera, laser) shares a cell with another generated object.
C27_HazardsApartFromEverything ==
    Applied("generate_map") =>
       LET map == unwrap(probe.out)
       IN /\ CameraCells(map) \cap SpawnZones = {}
          /\ AllLaserCells(map) \cap SpawnZones = {}
          /\ map.walls \cap map.loot = {}
          /\ CameraCells(map) \cap (map.walls \cup map.loot) = {}
          /\ AllLaserCells(map) \cap (map.walls \cup map.loot \cup CameraCells(map)) = {}
          /\ \A i, j \in 1..Len(map.cameras) :
                i # j => <<map.cameras[i].x, map.cameras[i].y>>
                            # <<map.cameras[j].x, map.cameras[j].y>>
          /\ \A i, j \in 1..Len(map.lasers) :
                i # j => LaserCells(map.lasers[i]) \cap LaserCells(map.lasers[j]) = {}

\* A map with a laser through cells of a spawn zone, a laser over a wall and
\* over loot, and a row laser crossing a column laser.
C27_Witness ==
    /\ Applied("generate_map")
    /\ LET map == unwrap(probe.out)
       IN /\ AllLaserCells(map) \cap SpawnZones # {}
          /\ AllLaserCells(map) \cap map.walls # {}
          /\ AllLaserCells(map) \cap map.loot # {}
          /\ Len(map.lasers) = 2
          /\ LaserCells(map.lasers[1]) \cap LaserCells(map.lasers[2]) # {}

\* The fields of Game that compute_state_hash appends.
HashedFields ==
    { "turn_index", "player1_pos", "player2_pos", "player1_score", "player2_score",
      "walls", "loot", "loot_collected", "fog_p1", "fog_p2", "session_seed", "deadline_ts" }

C30_VerifiedOnlyBySuccess ==
    /\ \A id \in ProofIds : ~is_verified(zk, id)
    /\ [][\A id \in ProofIds :
             (is_verified(zk', id) /\ ~is_verified(zk, id)) =>
                /\ probe'.fn = "verify_proof_with_stored_vk"
                /\ unwrap(probe'.out) = [result |-> "Ok", value |-> Some(id)]]_vars
    /\ [][(/\ probe'.fn = "verify_proof_with_stored_vk"
            /\ \/ zk.vk = None
               \/ probe'.in.n_pub + 1 # unwrap(zk.vk).n_ic)
           => /\ unwrap(probe'.out).result = "Panic"
              /\ zk' = zk]_vars

\* With a key for one public input stored and one proof verified, a blob
\* with the count 2 around a proof made for that key is refused, and the one
\* id stays the only one marked.
C30_Witness ==
    /\ probe.fn = "verify_proof_with_stored_vk"
    /\ is_some(zk.vk)
    /\ unwrap(zk.vk).n_ic = 2
    /\ probe.in.n_pub = 2
    /\ probe.in.proof_for[1] = unwrap(zk.vk).circuit
    /\ unwrap(probe.out).result = "Panic"
    /\ Cardinality(zk.verified) = 1
    /\ ~is_verified(zk, proof_id_of(probe.in))

\* ============================================================ C31 .. C40

\* The count a blob's header spells, read big-endian from its first four bytes.
HeaderCount(blob) ==
    blob.head[1] * 16777216 + blob.head[2] * 65536 + blob.head[3] * 256 + blob.head[4]

\* C31: parse_and_validate_proof_blob accepts a blob exactly when it has at
\* least 4 bytes, its header count minus the expected number of public inputs
\* is 424, 440 or 456, and its length is 4 + 32 * count; otherwise it returns
\* TooShort, UnexpectedFieldCount or LengthMismatch, tested in that order.
C31_BlobAcceptedExactly ==
    Applied("parse_and_validate_proof_blob") =>
        LET blob == probe.in.blob
            long == blob.len >= 4
            counted == long /\ (HeaderCount(blob) - probe.in.expected) \in {424, 440, 456}
            sized == counted /\ blob.len = 4 + 32 * HeaderCount(blob)
            result == unwrap(probe.out).result
        IN
        /\ result = "Ok" <=> sized
        /\ result = "TooShort" <=> ~long
        /\ result = "UnexpectedFieldCount" <=> long /\ ~counted
        /\ result = "LengthMismatch" <=> counted /\ ~sized

C31_Witness ==
    /\ Applied("parse_and_validate_proof_blob")
    /\ unwrap(probe.out).result = "Ok"
    /\ probe.in.expected = 1
    /\ HeaderCount(probe.in.blob) = 457

\* The number of single axis-aligned steps between two cells.
Steps(p, q) == abs_diff(p.x, q.x) + abs_diff(p.y, q.y)

\* C32: every accepted move starts where the player stands: the first cell of
\* an accepted path is the mover's position before the call, so the mover's
\* new position is within rolled (<= 6) single steps of the old one.
C32_MoveStartsWhereMoverStands ==
    (TurnAccepted /\ ~last.turn.no_path_flag) =>
        LET old == CurrentPos(GameBefore, last.caller)
            new == CurrentPos(GameAfter, last.caller)
        IN /\ last.turn.path[1] = old
           /\ last.turn.rolled_value <= 6
           /\ Steps(old, new) <= last.turn.rolled_value

\* An accepted move whose path starts on another cell than the mover's and
\* ends further away than the roll allows.
C32_Witness ==
    /\ TurnAccepted
    /\ ~last.turn.no_path_flag
    /\ last.turn.path[1] # CurrentPos(GameBefore, last.caller)
    /\ Steps(CurrentPos(GameBefore, last.caller), CurrentPos(GameAfter, last.caller))
          > last.turn.rolled_value

\* C33: a session reaches Ended only from Active: no step takes a
\* WaitingReveal session to Ended, and end_if_finished called on a session in
\* WaitingReveal (no match begun, no loot placed, no deadline set) leaves its
\* record as it is, with no winner, and the Hub as it is.
C33_EndedOnlyFromActive ==
    [][\A s \in SessionIds :
          (is_some(games[s]) /\ unwrap(games[s]).status = "WaitingReveal") =>
              /\ is_some(games'[s]) => unwrap(games'[s]).status # "Ended"
              /\ (Called("end_if_finished") /\ last'.session_id = s) =>
                     /\ games'[s] = games[s]
                     /\ unwrap(games'[s]).winner = None
                     /\ hub' = hub]_vars

\* end_if_finished has returned from a call on a WaitingReveal session and
\* the session is Ended with player1 as its winner.
C33_Witness ==
    /\ last.op = "end_if_finished"
    /\ last.result = "Ok"
    /\ is_some(last.before)
    /\ GameBefore.status = "WaitingReveal"
    /\ GameBefore.loot = zero_bitset
    /\ GameBefore.deadline_ts = None
    /\ GameAfter.status = "Ended"
    /\ GameAfter.winner = Some(GameBefore.player1)

\* C34: the end check that submit_turn forces at or after the deadline of an
\* Active session takes effect: when the call has returned TimerExpired the
\* session is Ended with a winner recorded and the Hub has its end_game.
C34_ForcedEndTakesEffect ==
    ( /\ TurnReturned
      /\ last.result = "TimerExpired"
      /\ is_some(last.before)
      /\ GameBefore.status = "Active"
      /\ DeadlineReached(GameBefore, now) )
    => /\ GameAfter.status = "Ended"
       /\ is_some(GameAfter.winner)
       /\ hub[last.session_id].end_calls = 1

\* submit_turn at the deadline has returned TimerExpired and the session is
\* as it was: Active, without a winner, the Hub not notified.
C34_Witness ==
    /\ TurnReturned
    /\ last.result = "TimerExpired"
    /\ is_some(last.before)
    /\ GameBefore.status = "Active"
    /\ DeadlineReached(GameBefore, now)
    /\ games[last.session_id] = last.before
    /\ GameAfter.winner = None
    /\ hub[last.session_id].end_calls = 0

\* The four single axis-aligned steps, and the cell reached from p by the
\* first k steps of a sequence of them.
StepDirs == {Pos(1, 0), Pos(-1, 0), Pos(0, 1), Pos(0, -1)}

RECURSIVE CellAfter(_, _, _)
CellAfter(p, dirs, k) ==
    IF k = 0 THEN p
    ELSE LET q == CellAfter(p, dirs, k - 1)
         IN Pos(q.x + dirs[k].x, q.y + dirs[k].y)

\* There is a sequence of n single steps from start on which the start cell
\* and every cell stepped onto is in bounds and not a wall.
WalkOfLength(walls, start, n) ==
    \E dirs \in [1..n -> StepDirs] :
       \A k \in 0..n :
          LET c == CellAfter(start, dirs, k)
          IN InBounds(c) /\ idx(c.x, c.y) \notin walls

\* C35: exists_any_path_len(walls, start, N) is true exactly when there is a
\* sequence of N single axis-aligned steps from start in which the start cell
\* and every cell stepped onto is in bounds and not a wall.
C35_AnyPathExactly ==
    Applied("exists_any_path_len") =>
        (unwrap(probe.out) <=> WalkOfLength(probe.in.walls, probe.in.start, probe.in.steps))

\* One step asked from a free cell whose four neighbours are walls or out of
\* bounds: exists_any_path_len has answered true.
C35_Witness ==
    /\ Applied("exists_any_path_len")
    /\ probe.in.steps = 1
    /\ InBounds(probe.in.start)
    /\ idx(probe.in.start.x, probe.in.start.y) \notin probe.in.walls
    /\ Boxed(probe.in.walls, probe.in.start)
    /\ unwrap(probe.out) = TRUE

\* C36: the end check runs within the call of every accepted turn: when the
\* turn collected the last uncollected loot the session is Ended, with the
\* winner recorded and the Hub notified, when submit_turn returns; otherwise,
\* the deadline not having passed, it is still Active.
C36_EndCheckAfterAcceptedTurn ==
    TurnAccepted =>
        LET collected_last ==
                /\ ~is_full_collection(GameBefore.loot, GameBefore.loot_collected)
                /\ is_full_collection(GameAfter.loot, GameAfter.loot_collected)
        IN /\ collected_last =>
                 /\ GameAfter.status = "Ended"
                 /\ is_some(GameAfter.winner)
                 /\ hub[last.session_id].end_calls = 1
                 /\ hub[last.session_id].player1_won = Some(player1_won(GameAfter))
           /\ (~collected_last /\ ~DeadlineReached(GameAfter, now)) =>
                 /\ GameAfter.status = "Active"
                 /\ GameAfter.winner = None
                 /\ hub[last.session_id].end_calls = 0

\* An accepted turn has collected the last loot and the session is Ended.
C36_Witness ==
    /\ TurnAccepted
    /\ last.turn.loot_collected_mask_delta # zero_bitset
    /\ ~is_full_collection(GameBefore.loot, GameBefore.loot_collected)
    /\ is_full_collection(GameAfter.loot, GameAfter.loot_collected)
    /\ GameAfter.status = "Ended"

\* C37: in every Active state each player's position is an in-bounds cell that
\* is not a wall and has an in-bounds neighbour that is not a wall, so whatever
\* the roll (1 .. 6) validate_path accepts a single step from it.
C37_NoPlayerBoxedIn ==
    \A s \in SessionIds :
       StatusIs(s, "Active") =>
          LET g == unwrap(games[s]) IN
          \A p \in {g.player1_pos, g.player2_pos} :
             /\ InBounds(p)
             /\ ~bit_is_set(g.walls, idx(p.x, p.y))
             /\ ~Boxed(g.walls, p)
             /\ \A rolled \in 1..6 :
                   \E n \in Neighbours(p) : validate_path(g.walls, <<p, n>>, rolled)

\* An Active session on a map with all 18 walls in which both players have
\* moved, one of them to a cell next to a wall.
C37_Witness ==
    \E s \in SessionIds :
       /\ StatusIs(s, "Active")
       /\ unwrap(games[s]).turn_index >= 2
       /\ Cardinality(unwrap(games[s]).walls) = 18
       /\ unwrap(games[s]).player1_pos # Pos(1, 1)
       /\ unwrap(games[s]).player2_pos # Pos(MAP_W - 2, MAP_H - 2)
       /\ \E p \in {unwrap(games[s]).player1_pos, unwrap(games[s]).player2_pos} :
             \E n \in Neighbours(p) :
                InBounds(n) /\ bit_is_set(unwrap(games[s]).walls, idx(n.x, n.y))

\* The fields of Game an accepted turn of the given mover may change.
MoverFields(game, mover) ==
    {"loot_collected", "turn_index", "active_player", "last_proof_id", "status", "winner"}
    \cup (IF mover = game.player1 THEN {"player1_pos", "player1_score", "fog_p1"}
          ELSE {"player2_pos", "player2_score", "fog_p2"})

\* C38: an accepted submit_turn changes only the mover's position, score and
\* fog, loot_collected, turn_index, active_player and last_proof_id, and status
\* and winner only when the match ends; walls, loot, cameras, lasers, the
\* session seed, the deadline, the seed commitments and reveals, the other
\* player's position, score and fog and every other field are as before.
C38_AcceptedTurnFrame ==
    TurnAccepted =>
        /\ \A f \in (DOMAIN GameBefore) \ MoverFields(GameBefore, last.caller) :
              GameAfter[f] = GameBefore[f]
        /\ GameAfter.status # "Ended" =>
              (GameAfter.status = GameBefore.status /\ GameAfter.winner = GameBefore.winner)
        /\ \A f \in {"walls", "loot", "cameras", "lasers", "session_seed", "deadline_ts",
                     "p1_seed_commit", "p2_seed_commit", "p1_seed_reveal", "p2_seed_reveal"} :
              GameAfter[f] = GameBefore[f]
        /\ last.caller = GameBefore.player1 =>
              /\ GameAfter.player2_pos = GameBefore.player2_pos
              /\ GameAfter.player2_score = GameBefore.player2_score
              /\ GameAfter.fog_p2 = GameBefore.fog_p2
        /\ last.caller = GameBefore.player2 =>
              /\ GameAfter.player1_pos = GameBefore.player1_pos
              /\ GameAfter.player1_score = GameBefore.player1_score
              /\ GameAfter.fog_p1 = GameBefore.fog_p1

\* An accepted turn of player2 that changed its position, score and fog and
\* the collected loot.
C38_Witness ==
    /\ TurnAccepted
    /\ last.caller = GameBefore.player2
    /\ GameAfter.player2_pos # GameBefore.player2_pos
    /\ GameAfter.player2_score # GameBefore.player2_score
    /\ GameAfter.fog_p2 # GameBefore.fog_p2
    /\ GameAfter.loot_collected # GameBefore.loot_collected
    /\ GameAfter.cameras # <<>>

\* What submit_turn would do with the turn the view was just asked about, sent
\* by the same player with a sound proof, the Hub working or not.
WouldSubmit(hub_ok) ==
    submit_turn(games[last.session_id], hub, now, last.session_id, last.caller,
                last.blob, last.turn, hub_ok)

\* C39: simulate_state_hash_after changes no stored state, and for every turn
\* that submit_turn would accept from the current state it returns the digest
\* of the record that submit_turn stores for that turn; the digest it gives
\* for an accepted turn is the digest of the stored record after the turn.
C39_SimulateIsReadOnlyAndExact ==
    /\ [][Called("simulate_state_hash_after") =>
             (games' = games /\ hub' = hub /\ accepted' = accepted /\ zk' = zk)]_vars
    /\ [](last.op = "simulate_state_hash_after" =>
             \A hub_ok \in BOOLEAN :
                WouldSubmit(hub_ok).result = "Ok" =>
                   last.args = Some(compute_state_hash(last.session_id,
                                                       unwrap(WouldSubmit(hub_ok).game))))
    /\ [](TurnAccepted =>
             simulate_state_hash_after(last.before, last.session_id, last.turn)
                = get_state_hash(games[last.session_id], last.session_id))

\* The view has answered for a turn that collects loot and that submit_turn
\* would accept.
C39_Witness ==
    /\ last.op = "simulate_state_hash_after"
    /\ last.result = "Ok"
    /\ last.turn.loot_collected_mask_delta # zero_bitset
    /\ WouldSubmit(TRUE).result = "Ok"
    /\ unwrap(games[last.session_id]).turn_index > 0

\* The fog of `player` in a record.
FogOf(game, player) == IF player = game.player1 THEN game.fog_p1 ELSE game.fog_p2

\* Two records differ in no field but walls and loot, and in those only on
\* cells outside the fog of `player`.
SameInsideFog(a, b, player) ==
    /\ \A f \in (DOMAIN a) \ {"walls", "loot"} : a[f] = b[f]
    /\ Flip(a.walls, b.walls) \cap FogOf(a, player) = {}
    /\ Flip(a.loot, b.loot) \cap FogOf(a, player) = {}

\* C40: get_player_view shows wall and loot bits only inside the caller's fog:
\* visible_walls is walls AND fog and visible_loot is loot AND fog, so for two
\* sessions that differ only in walls or loot on cells outside the player's
\* fog the view returns the same visible_walls and visible_loot.
C40_ViewMaskedByFog ==
    (Applied("get_player_view") /\ unwrap(probe.out).a.result = "Ok") =>
        LET a == probe.in.a
            b == probe.in.b
            va == unwrap(probe.out).a.value
            vb == unwrap(probe.out).b.value
        IN /\ unwrap(probe.out).b.result = "Ok"
           /\ va.visible_walls = a.walls \cap FogOf(a, probe.in.player)
           /\ va.visible_loot = a.loot \cap FogOf(a, probe.in.player)
           /\ vb.visible_walls = b.walls \cap FogOf(b, probe.in.player)
           /\ vb.visible_loot = b.loot \cap FogOf(b, probe.in.player)
           /\ SameInsideFog(a, b, probe.in.player) =>
                 /\ va.visible_walls = vb.visible_walls
                 /\ va.visible_loot = vb.visible_loot

\* The view has answered player1 for two records that differ in walls and in
\* loot, outside player1's fog only, with a wall and a loot inside the fog.
C40_Witness ==
    /\ Applied("get_player_view")
    /\ unwrap(probe.out).a.result = "Ok"
    /\ probe.in.player = probe.in.a.player1
    /\ SameInsideFog(probe.in.a, probe.in.b, probe.in.player)
    /\ probe.in.a.walls # probe.in.b.walls
    /\ probe.in.a.loot # probe.in.b.loot
    /\ unwrap(probe.out).a.value.visible_walls # {}
    /\ unwrap(probe.out).a.value.visible_loot # {}

====
